---- MODULE Spec2Model ----
(***************************************************************************)
(* Voice-integrity session orchestration of sensai-ai:                     *)
(*   VoiceWebSocketManager / VoiceSession (voice_integrity/                *)
(*   websocket_handler.py), the shared VoiceProcessor (real_time_          *)
(*   processor.py) and the voice WebSocket endpoint (api/websockets.py).   *)
(*                                                                         *)
(* The program runs on one asyncio event loop: a coroutine runs without    *)
(* interruption between two awaits, so every action below is the code      *)
(* between two consecutive await points of one coroutine.  A websocket     *)
(* send may return or raise; which one is an input of the step that        *)
(* resumes after it.                                                       *)
(***************************************************************************)
EXTENDS Integers, Sequences, FiniteSets, TLC

VARIABLES
    active_sessions,    \* VoiceWebSocketManager.active_sessions: id -> object
    session,            \* the VoiceSession objects ever constructed, by object id
    task,               \* each object's analysis_task (_periodic_analysis)
    cycles,             \* each object's in-flight _perform_comprehensive_analysis
    suspicious_events,  \* VoiceProcessor.suspicious_events (one processor per manager)
    caller,             \* the coroutines that call the manager
    hist,               \* per object: what has been observed of it (history)
    warnLog,            \* voice_warning messages sent (history)
    epoch,              \* per id: how many times it was deleted from the registry
    startOK,            \* start_voice_session calls that returned True (history)
    budget,             \* how many more calls and loop iterations may begin
    lastResult,         \* how the manager call that ended last ended (history)
    clf,                \* the CheatingClassifier the training routes use
    calc,               \* a call of one of the analysis functions and its result
    stream,             \* one VoiceSession fed a sequence of chunks, its buffer by content
    processor,          \* one VoiceProcessor fed a sequence of chunks
    detector            \* one SpeakerDetector and the sessions that call it

vars == <<active_sessions, session, task, cycles, suspicious_events, caller,
          hist, warnLog, epoch, startOK, budget, lastResult, clf, calc,
          stream, processor, detector>>

\* the state of the voice manager and its sessions
managerVars == <<active_sessions, session, task, cycles, suspicious_events, caller,
                 hist, warnLog, epoch, startOK, budget, lastResult>>

\* the state the manager's sessions never touch: the classifier of the
\* routes module is an object of its own (routes/voice_integrity.py line 42)
offlineVars == <<clf, calc, stream, processor, detector>>

----------------------------------------------------------------------------
\* Bounds of the model

NSessionIds == 2
NCallers == 2
\* calls of each kind and loop iterations a behaviour of Spec may begin
MaxStarts == 2
MaxStops == 1
MaxChunks == 1
MaxCycles == 2
\* the same for RegistrySpec, where no periodic task wakes up
RegStarts == 3
RegStops == 1
RegChunks == 1
\* the same for AudioSpec, where no periodic task wakes up either
AudioStarts == 2
AudioStops == 1
AudioChunks == 2
\* the same for LiveSpec, the fair behaviours of one session's task
LiveStarts == 2
LiveStops == 1
LiveChunks == 1
LiveCycles == 2

SessionIds == 1..NSessionIds
Callers == 1..NCallers
\* every object is constructed by a start
ObjIds == 1..(MaxStarts + RegStarts + AudioStarts + LiveStarts)

\* Inputs: samples per audio chunk
ChunkSamples == {16000}

----------------------------------------------------------------------------
\* Program constants

sample_rate == 16000
max_buffer_seconds == 30
\* probabilities and risk scores are counted in tenths: 0.7 is 7
alert_threshold == 7

\* CheatingClassifier.predict_cheating on the untrained classifier of the
\* manager: probability = risk_score, a sum of rule weights (tenths)
Probabilities == {7, 9}

NoSession == 0

----------------------------------------------------------------------------
\* VoiceSession.__init__

Max(S) == CHOOSE x \in S : \A y \in S : y <= x

Range(q) == {q[i] : i \in DOMAIN q}

\* a constructor that takes the counters over from the session that last had
\* the id
NewVoiceSession_reused(sid) ==
    LET prev == {o \in DOMAIN session : session[o].session_id = sid} IN
    [ session_id             |-> sid,
      is_active              |-> FALSE,
      audio_chunks_processed |-> IF prev = {} THEN 0
                                 ELSE session[Max(prev)].audio_chunks_processed,
      alerts_generated       |-> 0,
      current_risk_score     |-> 0,
      audio_buffer           |-> IF prev = {} THEN 0 ELSE session[Max(prev)].audio_buffer,
      voice_events           |-> 0,
      behavioral_history     |-> << >>,
      speaker_analyses       |-> << >>,
      emotion_analyses       |-> << >>,
      risk_history           |-> << >> ]

NewVoiceSession(sid) ==
    [ session_id             |-> sid,
      is_active              |-> FALSE,
      audio_chunks_processed |-> 0,
      alerts_generated       |-> 0,
      current_risk_score     |-> 0,
      audio_buffer           |-> 0,
      voice_events           |-> 0,
      behavioral_history     |-> << >>,
      speaker_analyses       |-> << >>,
      emotion_analyses       |-> << >>,
      risk_history           |-> << >> ]

NewTask == [ pc |-> "sleep", cancel |-> FALSE, cycleNo |-> 0 ]

NewHist == [ alertCalls |-> << >>, cancelled |-> {}, stopReturned |-> FALSE ]

IdleCaller ==
    [ pc |-> "idle", ctx |-> "direct", sid |-> NoSession, obj |-> NoSession,
      chunk |-> 0, rejected |-> FALSE, ep |-> 0, wsok |-> TRUE ]

\* CheatingClassifier.__init__ without a model_path: no samples, not
\* trained, and the models and the scaler as _initialize_models leaves them
\* (constructed and unfitted with scikit-learn, None without it): version 0.
\* sk is SKLEARN_AVAILABLE, fixed when the module is imported.
NewClassifier(sk) ==
    [ sklearn          |-> sk,
      n_samples        |-> 0,
      is_trained       |-> FALSE,
      feature_scaler   |-> 0,
      rf_model         |-> 0,
      gb_model         |-> 0,
      lr_model         |-> 0,
      feature_names    |-> "current",
      runs             |-> 0,
      predictions      |-> 0,
      loads            |-> 0,
      trainedSinceAdd  |-> FALSE,
      last             |-> [op |-> "none", outcome |-> "none", path |-> "none",
                            uses |-> << >>] ]

\* no analysis function has been called
NoCalc == [fn |-> "none", input |-> << >>, done |-> FALSE, output |-> << >>]

\* what a call of the manager returned, or the exception it raised
Result(op, kind) == [op |-> op, kind |-> kind]

NoResult == Result("none", "none")

InitManager ==
    /\ active_sessions = [s \in SessionIds |-> NoSession]
    /\ session = << >>
    /\ task = << >>
    /\ cycles = << >>
    /\ suspicious_events = << >>
    /\ caller = [c \in Callers |-> IdleCaller]
    /\ hist = << >>
    /\ warnLog = {}
    /\ epoch = [s \in SessionIds |-> 0]
    /\ startOK = {}
    /\ lastResult = NoResult

\* VoiceSession.__init__ (lines 195-216) for the session of stream, after
\* start() made it active (221): no chunk, an empty buffer
NewStream ==
    [ is_active |-> TRUE, audio_buffer |-> << >>, audio_chunks_processed |-> 0,
      voice_events |-> 0, received |-> << >>, calls |-> 0, last |-> "none" ]

\* VoiceProcessor.__init__ (real_time_processor.py 70-85): not active, an
\* empty audio_buffer
NewProcessor ==
    [ is_active |-> FALSE, audio_buffer |-> 0, fed |-> 0, via |-> "none",
      last |-> "none" ]

\* SpeakerDetector.__init__ (speaker_detector.py 96-102): an empty cache
NewDetector ==
    [ model_loaded |-> FALSE, analysis_cache |-> {}, calls |-> 0,
      last |-> [hit |-> FALSE, session_id |-> 0, content |-> "none",
                len |-> 0, result |-> << >>] ]

InitComponents ==
    /\ stream = NewStream
    /\ processor = NewProcessor
    /\ detector = NewDetector

InitExceptBudget ==
    /\ InitManager
    /\ clf = NewClassifier(TRUE)
    /\ calc = NoCalc
    /\ InitComponents

Init ==
    /\ InitExceptBudget
    /\ budget = [start |-> MaxStarts, stop |-> MaxStops, chunk |-> MaxChunks,
                 cycle |-> MaxCycles]

InitLive ==
    /\ InitExceptBudget
    /\ budget = [start |-> LiveStarts, stop |-> LiveStops, chunk |-> LiveChunks,
                 cycle |-> LiveCycles]

InitAudio ==
    /\ InitExceptBudget
    /\ budget = [start |-> AudioStarts, stop |-> AudioStops, chunk |-> AudioChunks,
                 cycle |-> 0]

InitRegistry ==
    /\ InitExceptBudget
    /\ budget = [start |-> RegStarts, stop |-> RegStops, chunk |-> RegChunks,
                 cycle |-> 0]

----------------------------------------------------------------------------
\* Where a manager call returns to

\* direct: a call on the manager itself (the REST stop route, a test, the
\* handling of one message of a connection); the caller is done when it
\* returns.  ws: websocket_voice_session (websockets.py 287-387) calling
\* start: after True it waits in its receive loop, after False it closes the
\* socket and reaches its finally block.  ws_cleanup: the stop of the finally
\* block, after which the endpoint returns.
ReturnPc(ctx, op, ok) ==
    IF ctx = "ws" /\ op = "start"
    THEN IF ok THEN "ws_loop" ELSE "ws_finally"
    ELSE "idle"

\* a caller that is not inside a call can begin one; callers are
\* interchangeable, so the call is given to the first free one
CanBegin(c) ==
    /\ caller[c].pc = "idle"
    /\ \A d \in Callers : d < c => caller[d].pc # "idle"

\* the session ids that some object was constructed for
UsedIds == {session[o].session_id : o \in DOMAIN session}

\* session ids are interchangeable too: the ids come into use in order, and
\* stops and chunks name an id that has been used (an id that was stopped
\* is as unregistered as one that was never started)
CanStart(sid) == \A t \in SessionIds : t < sid => t \in UsedIds

\* the caller's record when a manager call on sid begins
Begun(c, ctx, sid, o) ==
    [caller[c] EXCEPT !.ctx = ctx, !.sid = sid, !.obj = o]

\* the caller's record when its manager call returns: a direct caller is
\* done with it, a connection keeps its session id
Returned(rec, op, ok) ==
    IF ReturnPc(rec.ctx, op, ok) = "idle"
    THEN IdleCaller
    ELSE [rec EXCEPT !.pc = ReturnPc(rec.ctx, op, ok), !.chunk = 0]

----------------------------------------------------------------------------
\* VoiceWebSocketManager.start_voice_session / VoiceSession.start

\* a start that does not look the id up
StartSeesActive_never(sid) == FALSE

\* line 66: session_id in self.active_sessions
StartSeesActive(sid) == active_sessions[sid] # NoSession

\* Up to the first await; wsok says whether the websocket handed to the call
\* accepts the send that follows or raises.  An id already registered: the error message is
\* being sent (line 67).  Otherwise the object is constructed and registered
\* (74-80) and VoiceSession.start runs up to its send (220-227): the session
\* is active and its periodic task is created.  With ctx = "ws" this is
\* websocket_voice_session accepting a connection and calling start (291-304).
StartBegin(c, sid, ctx, wsok) ==
    /\ CanBegin(c)
    /\ CanStart(sid)
    /\ budget.start > 0
    /\ budget' = [budget EXCEPT !.start = @ - 1]
    /\ IF StartSeesActive(sid)
       THEN /\ caller' = [caller EXCEPT ![c] =
                   [IdleCaller EXCEPT !.pc = "start_err_send", !.ctx = ctx,
                                      !.sid = sid, !.obj = active_sessions[sid],
                                      !.rejected = TRUE, !.ep = epoch[sid]]]
            /\ UNCHANGED <<active_sessions, session, task, cycles, hist>>
       ELSE /\ session' = Append(session, [NewVoiceSession(sid) EXCEPT !.is_active = TRUE])
            /\ task' = Append(task, NewTask)
            /\ cycles' = Append(cycles, {})
            /\ hist' = Append(hist, NewHist)
            /\ active_sessions' = [active_sessions EXCEPT ![sid] = Len(session) + 1]
            /\ caller' = [caller EXCEPT ![c] =
                   [IdleCaller EXCEPT !.pc = "start_send", !.ctx = ctx,
                                      !.sid = sid, !.obj = Len(session) + 1,
                                      !.ep = epoch[sid], !.wsok = wsok]]
    /\ UNCHANGED <<suspicious_events, warnLog, epoch, startOK, lastResult>>
    /\ UNCHANGED offlineVars

\* lines 67-71 and 88-90: the error was sent, or the send raised and the
\* exception was caught: either way the call returns False
StartErrSent(c) ==
    /\ caller[c].pc = "start_err_send"
    /\ caller' = [caller EXCEPT ![c] = Returned(@, "start", FALSE)]
    /\ lastResult' = Result("start", "False")
    /\ UNCHANGED <<active_sessions, session, task, cycles, suspicious_events,
                   hist, warnLog, epoch, startOK, budget>>
    /\ UNCHANGED offlineVars

\* lines 227-236 and 85-90: the 'voice_session_started' send returned (the
\* call returns True) or raised (the exception is caught, the call returns
\* False; nothing is undone)
StartSent(c) ==
    /\ caller[c].pc = "start_send"
    /\ caller' = [caller EXCEPT ![c] = Returned(@, "start", caller[c].wsok)]
    /\ lastResult' = Result("start", IF caller[c].wsok THEN "True" ELSE "False")
    /\ startOK' = IF caller[c].wsok
                  THEN startOK \cup {<<caller[c].sid, caller[c].ep, caller[c].obj>>}
                  ELSE startOK
    /\ UNCHANGED <<active_sessions, session, task, cycles, suspicious_events,
                   hist, warnLog, epoch, budget>>
    /\ UNCHANGED offlineVars

-----
\* VoiceWebSocketManager.stop_voice_session / VoiceSession.stop

\* lines 105-106 and 240-251: the registered object is deactivated, its task
\* is asked to cancel (Task.cancel only requests: the task sees it when the
\* loop next runs it), the summary is built, and the 'voice_session_stopped'
\* message is being sent
StopEnter(c, ctx, sid) ==
    LET o == active_sessions[sid] IN
    /\ session' = [session EXCEPT ![o].is_active = FALSE]
    /\ task' = [task EXCEPT ![o].cancel = TRUE]
    /\ caller' = [caller EXCEPT ![c] = [Begun(c, ctx, sid, o) EXCEPT !.pc = "stop_send"]]

\* a stop that does not look the id up
StopSeesSession_always(sid) == TRUE

\* line 102: session_id in self.active_sessions
StopSeesSession(sid) == active_sessions[sid] # NoSession

\* lines 102-106: an id that is not registered is answered with the
\* 'Session not found' result; the lookup at 105 raises KeyError for an id
\* that is not in the dictionary
StopBegin(c, sid) ==
    /\ CanBegin(c)
    /\ sid \in UsedIds
    /\ budget.stop > 0
    /\ budget' = [budget EXCEPT !.stop = @ - 1]
    /\ IF ~StopSeesSession(sid)
       THEN /\ caller' = [caller EXCEPT ![c] =
                   Returned(Begun(c, "direct", sid, NoSession), "stop", FALSE)]
            /\ lastResult' = Result("stop", "Session not found")
            /\ UNCHANGED <<session, task>>
       ELSE IF active_sessions[sid] = NoSession
       THEN /\ caller' = [caller EXCEPT ![c] =
                   Returned(Begun(c, "direct", sid, NoSession), "stop", FALSE)]
            /\ lastResult' = Result("stop", "KeyError")
            /\ UNCHANGED <<session, task>>
       ELSE /\ StopEnter(c, "direct", sid)
            /\ UNCHANGED lastResult
    /\ UNCHANGED <<active_sessions, cycles, suspicious_events, hist, warnLog,
                   epoch, startOK>>
    /\ UNCHANGED offlineVars

\* lines 251-263 and 108-111: the send returned or raised (a raise is caught
\* and logged); then del self.active_sessions[session_id], which deletes
\* whatever object the id maps to now and raises KeyError when the id is gone
StopSent(c) ==
    /\ caller[c].pc = "stop_send"
    /\ IF active_sessions[caller[c].sid] = NoSession
       THEN /\ caller' = [caller EXCEPT ![c] =
                   Returned(@, "stop", FALSE)]
            /\ lastResult' = Result("stop", "KeyError")
            /\ UNCHANGED <<active_sessions, epoch>>
       ELSE /\ active_sessions' = [active_sessions EXCEPT ![caller[c].sid] = NoSession]
            /\ epoch' = [epoch EXCEPT ![caller[c].sid] = @ + 1]
            /\ caller' = [caller EXCEPT ![c] = Returned(@, "stop", TRUE)]
            /\ lastResult' = Result("stop", "summary")
    /\ hist' = [hist EXCEPT ![caller[c].obj].stopReturned = TRUE]
    /\ UNCHANGED <<session, task, cycles, suspicious_events, warnLog, startOK, budget>>
    /\ UNCHANGED offlineVars

\* websockets.py 380-387: the connection ends (the client disconnected while
\* the endpoint was receiving, or the endpoint was closing after a failed
\* start) and the finally block runs:
\* if session_id is in active_sessions, stop_voice_session(session_id)
WsFinally(c) ==
    /\ caller[c].pc \in {"ws_loop", "ws_finally"}
    /\ IF active_sessions[caller[c].sid] = NoSession
       THEN /\ caller' = [caller EXCEPT ![c] = IdleCaller]
            /\ UNCHANGED <<session, task>>
       ELSE StopEnter(c, "ws_cleanup", caller[c].sid)
    /\ UNCHANGED <<active_sessions, cycles, suspicious_events, hist, warnLog,
                   epoch, startOK, budget, lastResult>>
    /\ UNCHANGED offlineVars

----------------------------------------------------------------------------
\* VoiceWebSocketManager.process_audio_chunk / VoiceSession.process_audio

Min(a, b) == IF a < b THEN a ELSE b

\* lines 291-297: the buffer after n more samples, cut to its last 30 seconds
BufferAfter(len, n) == Min(len + n, sample_rate * max_buffer_seconds)

\* line 124: session_id in self.active_sessions
ChunkSeesSession(sid) == active_sessions[sid] # NoSession

\* a session that takes audio whether it is active or not
SessionAccepts_always(o) == TRUE

\* line 275: if not self.is_active, the chunk is refused
SessionAccepts(o) == session[o].is_active

\* lines 124-128 and 275-304, up to the await of the 'voice_activity' send.
\* n is the number of samples of the chunk; susp says whether the chunk makes
\* VoiceProcessor._detect_suspicious_patterns append a suspicious event
\* (real_time_processor.py 237-242) to the processor all sessions share.
ChunkBegin(c, sid, n, susp) ==
    /\ CanBegin(c)
    /\ sid \in UsedIds
    /\ budget.chunk > 0
    /\ budget' = [budget EXCEPT !.chunk = @ - 1]
    /\ LET o == active_sessions[sid] IN
       IF ~ChunkSeesSession(sid)
       THEN /\ caller' = [caller EXCEPT ![c] =
                   Returned(Begun(c, "direct", sid, NoSession), "chunk", FALSE)]
            /\ lastResult' = Result("chunk", "Session not found")
            /\ UNCHANGED <<session, suspicious_events>>
       ELSE IF o = NoSession
       THEN /\ caller' = [caller EXCEPT ![c] =
                   Returned(Begun(c, "direct", sid, NoSession), "chunk", FALSE)]
            /\ lastResult' = Result("chunk", "KeyError")
            /\ UNCHANGED <<session, suspicious_events>>
       ELSE IF ~SessionAccepts(o)
       THEN /\ caller' = [caller EXCEPT ![c] =
                   Returned(Begun(c, "direct", sid, o), "chunk", FALSE)]
            /\ lastResult' = Result("chunk", "Session not active")
            /\ UNCHANGED <<session, suspicious_events>>
       ELSE /\ UNCHANGED lastResult
            /\ session' = [session EXCEPT
                   ![o].audio_buffer = BufferAfter(@, n),
                   ![o].audio_chunks_processed = @ + 1,
                   ![o].voice_events = @ + 1]
            /\ suspicious_events' =
                   IF susp
                   THEN Append(suspicious_events,
                               [origin |-> o, chunk |-> session[o].audio_chunks_processed + 1])
                   ELSE suspicious_events
            /\ caller' = [caller EXCEPT ![c] =
                   [Begun(c, "direct", sid, o) EXCEPT
                       !.pc = "chunk_send",
                       !.chunk = session[o].audio_chunks_processed + 1]]
    /\ UNCHANGED <<active_sessions, task, cycles, hist, warnLog, epoch, startOK>>
    /\ UNCHANGED offlineVars

\* lines 321-344 and 306-311: after the 'voice_activity' send.  If it raised,
\* the exception is caught (343).  Otherwise, if the shared processor holds
\* any suspicious event, its latest one is sent as a 'voice_warning' (332-341).
ChunkFeedback(c, ok) ==
    /\ caller[c].pc = "chunk_send"
    /\ warnLog' =
          IF ok /\ Len(suspicious_events) > 0
          THEN warnLog \cup
               {[to |-> caller[c].obj, chunk |-> caller[c].chunk,
                 of |-> suspicious_events[Len(suspicious_events)]]}
          ELSE warnLog
    /\ caller' = [caller EXCEPT ![c] = Returned(@, "chunk", TRUE)]
    /\ lastResult' = Result("chunk", "processed")
    /\ UNCHANGED <<active_sessions, session, task, cycles, suspicious_events,
                   hist, epoch, startOK, budget>>
    /\ UNCHANGED offlineVars

----------------------------------------------------------------------------
\* VoiceSession._periodic_analysis and the cycle it runs

\* a loop that starts the cycle as a task of its own and sleeps again
LoopAfterCycleBegins_noawait == "sleep"

\* line 356: the loop awaits the cycle it began before it sleeps again
LoopAfterCycleBegins == "await_cycle"

\* a cycle whose exception escapes and ends the task
LoopOnCycleException_crash == "crash"

\* lines 400-401 and 465-466: an exception of a cycle is caught and logged
\* inside the cycle; the loop goes on
LoopOnCycleException == "continue"

\* what the analyzers of one cycle can end with.  analyze_behavior runs
\* unguarded in the executor; analyze_audio_async (speaker_detector.py
\* 428-434) and analyze_emotion_async (emotion_analyzer.py 645-657) catch
\* their own exceptions and return a degraded result.
BehavioralOutcomes == {"ok", "exc"}
SpeakerOutcomes == {"ok"}
EmotionOutcomes == {"ok"}

\* create_sample_from_analysis and predict_cheating: a probability, or an
\* exception (caught at 465)
ClassificationOutcomes ==
    {[exc |-> FALSE, probability |-> p] : p \in Probabilities}
        \cup {[exc |-> TRUE, probability |-> 0]}

\* the task record after a cycle of it has ended, with or without exception
TaskAfterCycle(t, exc) ==
    [t EXCEPT !.pc = IF exc /\ LoopOnCycleException # "continue" THEN "done"
                     ELSE IF @ = "await_cycle" THEN "sleep" ELSE @]

\* lines 348-382: asyncio.sleep returns, the session is active, and
\* _perform_comprehensive_analysis begins: with less than one second of
\* audio it returns at once (366-367); otherwise the three analyzers are
\* started and gathered (374-382)
Wake(o) ==
    /\ o \in DOMAIN session
    /\ task[o].pc = "sleep"
    /\ ~task[o].cancel
    /\ session[o].is_active
    /\ budget.cycle > 0
    /\ budget' = [budget EXCEPT !.cycle = @ - 1]
    /\ IF session[o].audio_buffer < sample_rate
       THEN /\ task' = [task EXCEPT ![o].cycleNo = @ + 1]
            /\ UNCHANGED cycles
       ELSE /\ task' = [task EXCEPT ![o].cycleNo = @ + 1,
                                    ![o].pc = LoopAfterCycleBegins]
            /\ cycles' = [cycles EXCEPT ![o] =
                   @ \cup {[n |-> task[o].cycleNo + 1, pc |-> "gather", prob |-> 0]}]
    /\ UNCHANGED <<active_sessions, session, suspicious_events, caller, hist,
                   warnLog, epoch, startOK, lastResult>>
    /\ UNCHANGED offlineVars

\* lines 380-398 and 429-449: the gather returns with the three results;
\* each result that is no exception is stored; if none is an exception,
\* classification runs: the risk score is set and the risk history grows,
\* and the 'voice_analysis_update' is being sent (449)
GatherDone(o, cy, rb, rs, re, pr) ==
    /\ o \in DOMAIN session
    /\ cy \in cycles[o]
    /\ cy.pc = "gather"
    /\ ~task[o].cancel
    /\ LET stored == [session[o] EXCEPT
               !.behavioral_history = IF rb = "ok" THEN Append(@, cy.n) ELSE @,
               !.speaker_analyses   = IF rs = "ok" THEN Append(@, cy.n) ELSE @,
               !.emotion_analyses   = IF re = "ok" THEN Append(@, cy.n) ELSE @]
           allok == rb = "ok" /\ rs = "ok" /\ re = "ok"
       IN IF allok /\ ~pr.exc
          THEN /\ session' = [session EXCEPT ![o] =
                      [stored EXCEPT
                          !.current_risk_score = pr.probability,
                          !.risk_history = Append(@, [cycle |-> cy.n,
                                                      probability |-> pr.probability])]]
               /\ cycles' = [cycles EXCEPT ![o] =
                      (@ \ {cy}) \cup {[cy EXCEPT !.pc = "send_update", !.prob = pr.probability]}]
               /\ UNCHANGED task
          ELSE /\ session' = [session EXCEPT ![o] = stored]
               /\ cycles' = [cycles EXCEPT ![o] = @ \ {cy}]
               /\ task' = [task EXCEPT ![o] = TaskAfterCycle(@, TRUE)]
    /\ UNCHANGED <<active_sessions, suspicious_events, caller, hist, warnLog,
                   epoch, startOK, budget, lastResult>>
    /\ UNCHANGED offlineVars

\* lines 449-463 and 470-481: the update send returned or raised.  If it
\* raised, the exception is caught at 465 and the cycle is over.  If it
\* returned and the probability exceeds the threshold, send_voice_alert is
\* called and awaited.
UpdateSent(o, cy, ok) ==
    /\ o \in DOMAIN session
    /\ cy \in cycles[o]
    /\ cy.pc = "send_update"
    /\ ~task[o].cancel
    /\ IF ok /\ cy.prob > alert_threshold
       THEN /\ hist' = [hist EXCEPT ![o].alertCalls = Append(@, cy.n)]
            /\ cycles' = [cycles EXCEPT ![o] = (@ \ {cy}) \cup {[cy EXCEPT !.pc = "alert"]}]
            /\ UNCHANGED task
       ELSE /\ cycles' = [cycles EXCEPT ![o] = @ \ {cy}]
            /\ task' = [task EXCEPT ![o] = TaskAfterCycle(@, ~ok)]
            /\ UNCHANGED hist
    /\ UNCHANGED <<active_sessions, session, suspicious_events, caller, warnLog,
                   epoch, startOK, budget, lastResult>>
    /\ UNCHANGED offlineVars

\* lines 481-484: send_voice_alert returned (it catches what its own sends
\* raise, 157-158); the alert is counted and the cycle is over
AlertReturned(o, cy) ==
    /\ o \in DOMAIN session
    /\ cy \in cycles[o]
    /\ cy.pc = "alert"
    /\ ~task[o].cancel
    /\ session' = [session EXCEPT ![o].alerts_generated = @ + 1]
    /\ cycles' = [cycles EXCEPT ![o] = @ \ {cy}]
    /\ task' = [task EXCEPT ![o] = TaskAfterCycle(@, FALSE)]
    /\ UNCHANGED <<active_sessions, suspicious_events, caller, hist, warnLog,
                   epoch, startOK, budget, lastResult>>
    /\ UNCHANGED offlineVars

\* lines 358-359: the loop runs the task after stop asked it to cancel:
\* CancelledError is raised at the await the task is suspended in (the
\* handlers at 400 and 465 catch Exception, which CancelledError is not),
\* the cycle in flight is abandoned where it stands and the task ends
Cancelled(o) ==
    /\ o \in DOMAIN session
    /\ task[o].cancel
    /\ task[o].pc # "done"
    /\ task' = [task EXCEPT ![o].pc = "done"]
    /\ cycles' = [cycles EXCEPT ![o] = {}]
    /\ hist' = [hist EXCEPT ![o].cancelled = @ \cup {cy.n : cy \in cycles[o]}]
    /\ UNCHANGED <<active_sessions, session, suspicious_events, caller, warnLog,
                   epoch, startOK, budget, lastResult>>
    /\ UNCHANGED offlineVars

\* one step of the periodic task of object o
TaskStep(o) ==
    /\ o \in DOMAIN session
    /\ \/ Wake(o)
       \/ \E cy \in cycles[o] :
             \/ \E rb \in BehavioralOutcomes, rs \in SpeakerOutcomes,
                   re \in EmotionOutcomes, pr \in ClassificationOutcomes :
                   GatherDone(o, cy, rb, rs, re, pr)
             \/ \E ok \in BOOLEAN : UpdateSent(o, cy, ok)
             \/ AlertReturned(o, cy)
       \/ Cancelled(o)

----------------------------------------------------------------------------
Contexts == {"direct", "ws"}

Next ==
    \/ \E c \in Callers, sid \in SessionIds, ctx \in Contexts, wsok \in BOOLEAN :
          StartBegin(c, sid, ctx, wsok)
    \/ \E c \in Callers : StartErrSent(c)
    \/ \E c \in Callers : StartSent(c)
    \/ \E c \in Callers, sid \in SessionIds : StopBegin(c, sid)
    \/ \E c \in Callers : StopSent(c)
    \/ \E c \in Callers : WsFinally(c)
    \/ \E c \in Callers, sid \in SessionIds, n \in ChunkSamples, susp \in BOOLEAN :
          ChunkBegin(c, sid, n, susp)
    \/ \E c \in Callers, ok \in BOOLEAN : ChunkFeedback(c, ok)
    \/ \E o \in DOMAIN session : Wake(o)
    \/ \E o \in DOMAIN session : \E cy \in cycles[o] :
          \E rb \in BehavioralOutcomes, rs \in SpeakerOutcomes,
             re \in EmotionOutcomes, pr \in ClassificationOutcomes :
             GatherDone(o, cy, rb, rs, re, pr)
    \/ \E o \in DOMAIN session : \E cy \in cycles[o], ok \in BOOLEAN : UpdateSent(o, cy, ok)
    \/ \E o \in DOMAIN session : \E cy \in cycles[o] : AlertReturned(o, cy)
    \/ \E o \in DOMAIN session : Cancelled(o)

Spec == Init /\ [][Next]_vars

\* The registry alone: calls and connections, while no periodic task wakes
\* up (the analysis interval of 10 s does not elapse)
NextRegistry ==
    \/ \E c \in Callers, sid \in SessionIds, ctx \in Contexts, wsok \in BOOLEAN :
          StartBegin(c, sid, ctx, wsok)
    \/ \E c \in Callers : StartErrSent(c)
    \/ \E c \in Callers : StartSent(c)
    \/ \E c \in Callers, sid \in SessionIds : StopBegin(c, sid)
    \/ \E c \in Callers : StopSent(c)
    \/ \E c \in Callers : WsFinally(c)
    \/ \E c \in Callers, sid \in SessionIds, n \in ChunkSamples, susp \in BOOLEAN :
          ChunkBegin(c, sid, n, susp)
    \/ \E c \in Callers, ok \in BOOLEAN : ChunkFeedback(c, ok)
    \/ \E o \in DOMAIN session : Cancelled(o)

RegistrySpec == InitRegistry /\ [][NextRegistry]_vars

\* The audio path of the sessions, under the same steps
AudioSpec == InitAudio /\ [][NextRegistry]_vars

\* The event loop runs every task that is ready (asyncio keeps the ready
\* callbacks in a FIFO queue) and every sleep ends: each periodic task that
\* can take a step eventually takes one.  Callers are under no obligation.
\* The steps of LiveSpec: the calls made directly on the manager, with chunks
\* that record no suspicious event, and the steps of the periodic tasks
NextLive ==
    \/ \E c \in Callers, sid \in SessionIds, wsok \in BOOLEAN :
          StartBegin(c, sid, "direct", wsok)
    \/ \E c \in Callers : StartErrSent(c)
    \/ \E c \in Callers : StartSent(c)
    \/ \E c \in Callers, sid \in SessionIds : StopBegin(c, sid)
    \/ \E c \in Callers : StopSent(c)
    \/ \E c \in Callers, sid \in SessionIds, n \in ChunkSamples :
          ChunkBegin(c, sid, n, FALSE)
    \/ \E c \in Callers, ok \in BOOLEAN : ChunkFeedback(c, ok)
    \/ \E o \in ObjIds : TaskStep(o)

LiveSpec ==
    /\ InitLive
    /\ [][NextLive]_vars
    /\ \A o \in ObjIds : WF_vars(TaskStep(o))

----------------------------------------------------------------------------
\* Properties of the registry (checked under RegistrySpec)

\* the caller c takes a step
Acts(c) == caller'[c] # caller[c]

\* the step belongs to a connection or call whose start was rejected
RejectedActs(c) == Acts(c) /\ (caller[c].rejected \/ caller'[c].rejected)

\* C1: a start on an id that is already active is rejected and nothing it
\* does, its cleanup included, changes the registration, the activity, the
\* periodic task, the chunk count, the buffer or the histories of the
\* existing session
C1_RejectedStartLeavesSession ==
    [][\A c \in Callers :
          RejectedActs(c) =>
              /\ caller'[c].pc # "start_send"
              /\ UNCHANGED <<active_sessions, session, task, cycles>>]_vars

\* C2: of the starts that saw the same registration period of an id, at
\* most one returned True, and the one that did is the one whose object the
\* id maps to for as long as that period lasts
C2_AtMostOneStartSucceeds ==
    /\ \A r1 \in startOK, r2 \in startOK :
          (r1[1] = r2[1] /\ r1[2] = r2[2]) => r1 = r2
    /\ \A r \in startOK :
          epoch[r[1]] = r[2] => active_sessions[r[1]] = r[3]

\* two starts for one id are suspended at their sends at the same time: the
\* one that registered the session and the one that was rejected
C2_Witness ==
    \E c \in Callers, d \in Callers :
        /\ caller[c].pc = "start_send"
        /\ caller[d].pc = "start_err_send"
        /\ caller[c].sid = caller[d].sid
        /\ caller[d].obj = caller[c].obj

\* the object is active and its periodic task has not ended
Live(o) == session[o].is_active /\ task[o].pc # "done"

\* C3: every live session is the object its id is registered under, so
\* there is at most one per id
C3_OneLiveSessionPerId ==
    \A o \in DOMAIN session :
        Live(o) => active_sessions[session[o].session_id] = o

\* a stop call ends (it returns, or its del raises): the id is not registered
StopUnregisters ==
    \A c \in Callers :
        (caller[c].pc = "stop_send" /\ Acts(c)) =>
            active_sessions'[caller[c].sid] = NoSession

\* a start on an id that is not registered is not rejected and registers a
\* new object with no chunks, no audio, no alerts and empty histories
StartRegistersFresh ==
    \A c \in Callers :
        (caller[c].pc = "idle" /\ caller'[c].pc \in {"start_send", "start_err_send"}
           /\ active_sessions[caller'[c].sid] = NoSession) =>
            LET o == active_sessions'[caller'[c].sid] IN
            /\ caller'[c].pc = "start_send"
            /\ o \notin DOMAIN session
            /\ o \in DOMAIN session'
            /\ session'[o].session_id = caller'[c].sid
            /\ session'[o].is_active
            /\ session'[o].audio_chunks_processed = 0
            /\ session'[o].audio_buffer = 0
            /\ session'[o].alerts_generated = 0
            /\ session'[o].voice_events = 0
            /\ session'[o].behavioral_history = << >>
            /\ session'[o].speaker_analyses = << >>
            /\ session'[o].emotion_analyses = << >>
            /\ session'[o].risk_history = << >>

\* the start that registered an object for an id a stop had freed returns
StartAfterStopReturns(c) ==
    /\ caller[c].pc = "start_send"
    /\ caller[c].ep >= 1
    /\ Acts(c)

\* C4 as stated: stop unregisters, and the next start with the id registers
\* a fresh session and succeeds
C4_StartAfterStopSucceeds ==
    [][/\ StopUnregisters
       /\ StartRegistersFresh
       /\ \A c \in Callers :
             StartAfterStopReturns(c) =>
                 <<caller[c].sid, caller[c].ep, caller[c].obj>> \in startOK']_vars

\* C4 amended: stop unregisters, and the next start with the id registers a
\* fresh session; it returns True exactly when its 'voice_session_started'
\* send is accepted
C4_StartAfterStopRegistersFresh ==
    [][/\ StopUnregisters
       /\ StartRegistersFresh
       /\ \A c \in Callers :
             StartAfterStopReturns(c) =>
                 (<<caller[c].sid, caller[c].ep, caller[c].obj>> \in startOK'
                     <=> caller[c].wsok)]_vars

\* an id whose previous session had processed a chunk was stopped and
\* started again, and the start returned True with a session of zero chunks
C4_Witness ==
    \E r \in startOK :
        /\ r[2] >= 1
        /\ session[r[3]].audio_chunks_processed = 0
        /\ \E o \in DOMAIN session :
              /\ o < r[3]
              /\ session[o].session_id = r[1]
              /\ session[o].audio_chunks_processed > 0
              /\ hist[o].stopReturned

----------------------------------------------------------------------------
\* Properties of the periodic cycles (checked under Spec and LiveSpec)

\* how often send_voice_alert was called in cycle n of object o
AlertCount(o, n) ==
    Cardinality({i \in DOMAIN hist[o].alertCalls : hist[o].alertCalls[i] = n})

\* cycle n of object o is neither in flight nor was it cancelled
CycleOver(o, n) ==
    /\ \A cy \in cycles[o] : cy.n # n
    /\ n \notin hist[o].cancelled

\* the entries of the risk history whose probability exceeds the threshold
AboveThreshold(o) ==
    {i \in DOMAIN session[o].risk_history :
        session[o].risk_history[i].probability > alert_threshold}

\* C5: a cycle that reached classification and is over called the alerting
\* collaborator once if its probability exceeds the threshold and never
\* otherwise, and alerts_generated counts exactly the cycles above it
C5_AlertOncePerCycleAboveThreshold ==
    \A o \in DOMAIN session :
        /\ \A i \in DOMAIN session[o].risk_history :
              LET e == session[o].risk_history[i] IN
              CycleOver(o, e.cycle) =>
                  AlertCount(o, e.cycle) = IF e.probability > alert_threshold THEN 1 ELSE 0
        /\ (cycles[o] = {} /\ hist[o].cancelled = {}) =>
              session[o].alerts_generated = Cardinality(AboveThreshold(o))

\* C6: a session has at most one cycle in flight, it is the latest one
\* begun, no analyzer runs for it before every earlier cycle has finished
\* its classification and alerting, and the risk history is in cycle order
C6_CyclesNeverOverlap ==
    \A o \in DOMAIN session :
        /\ Cardinality(cycles[o]) <= 1
        /\ \A cy \in cycles[o] : cy.n = task[o].cycleNo
        /\ \A cy \in cycles[o] :
              cy.pc = "gather" =>
                  \A i \in DOMAIN session[o].risk_history :
                      session[o].risk_history[i].cycle < cy.n
        /\ \A i \in DOMAIN session[o].risk_history :
              \A j \in DOMAIN session[o].risk_history :
                  i < j => session[o].risk_history[i].cycle
                              < session[o].risk_history[j].cycle

\* the second cycle of a session is alerting after its first cycle had
\* been classified
C6_Witness ==
    \E o \in DOMAIN session :
        \E cy \in cycles[o] :
            /\ cy.n = 2
            /\ cy.pc = "alert"
            /\ Len(session[o].risk_history) = 2
            /\ session[o].risk_history[1].cycle = 1

\* C7: a cycle that was cancelled in flight has left nothing in the
\* histories of its session
C7_CancelledCycleLeavesNothing ==
    \A o \in DOMAIN session :
        \A n \in hist[o].cancelled :
            /\ n \notin Range(session[o].behavioral_history)
            /\ n \notin Range(session[o].speaker_analyses)
            /\ n \notin Range(session[o].emotion_analyses)
            /\ \A i \in DOMAIN session[o].risk_history :
                  session[o].risk_history[i].cycle # n

\* C8: once VoiceSession.stop has returned for a session, its periodic
\* task has ended
C8_TaskEndedWhenStopReturns ==
    \A o \in DOMAIN session :
        hist[o].stopReturned => task[o].pc = "done"

\* the session is active and the loop may still begin an iteration
Attempting(o) ==
    /\ o \in DOMAIN session
    /\ session[o].is_active
    /\ budget.cycle > 0

\* C9: the periodic task ends and the session is deactivated only by a
\* stop of that session, and while the session is active the loop always
\* comes to attempt another cycle, whatever the cycles before it raised
C9_TaskSurvivesCycleExceptions ==
    /\ [](\A o \in DOMAIN session :
             (task[o].pc = "done" \/ ~session[o].is_active) => task[o].cancel)
    /\ \A o \in 1..LiveStarts :
          \A n \in 0..LiveCycles :
              (Attempting(o) /\ task[o].cycleNo = n)
                 ~> (~Attempting(o) \/ task[o].cycleNo > n)

\* the behavioral analyzer raised in the first cycle of a session, and the
\* session, still active, has begun its second cycle
C9_Witness ==
    \E o \in DOMAIN session :
        /\ session[o].is_active
        /\ task[o].pc # "done"
        /\ task[o].cycleNo = 2
        /\ 1 \in Range(session[o].speaker_analyses)
        /\ 1 \notin Range(session[o].behavioral_history)
        /\ \E cy \in cycles[o] : cy.n = 2

----------------------------------------------------------------------------
\* Isolation of the sessions (checked under AudioSpec)

\* C10: a call made for one session id and a step of one session's task
\* leave the sessions of every other id as they were, and every warning a
\* session is sent is about an event of its own audio
C10_SessionsAreIsolated ==
    [][/\ \A c \in Callers :
             Acts(c) =>
                 \A o \in DOMAIN session :
                     session[o].session_id \notin {caller[c].sid, caller'[c].sid}
                        => session'[o] = session[o]
       /\ \A o \in DOMAIN session :
             (task'[o] # task[o] /\ \A c \in Callers : ~Acts(c)) =>
                 \A q \in DOMAIN session \ {o} : session'[q] = session[q]
       /\ \A w \in warnLog' : w.of.origin = w.to]_vars

----------------------------------------------------------------------------
\* Calls for ids that are not registered (checked under RegistrySpec)

\* C11: a stop or a chunk for an id that is not registered ends at once
\* with the 'Session not found' result, not with an exception, and changes
\* neither the registry nor any session, task or cycle
C11_UnregisteredIdIsAnsweredWithError ==
    [][\A c \in Callers, sid \in SessionIds :
          /\ (StopBegin(c, sid) /\ active_sessions[sid] = NoSession) =>
                /\ lastResult' = Result("stop", "Session not found")
                /\ caller'[c].pc = "idle"
                /\ UNCHANGED <<active_sessions, session, task, cycles,
                               suspicious_events, epoch>>
          /\ ((\E n \in ChunkSamples, susp \in BOOLEAN : ChunkBegin(c, sid, n, susp))
                 /\ active_sessions[sid] = NoSession) =>
                /\ lastResult' = Result("chunk", "Session not found")
                /\ caller'[c].pc = "idle"
                /\ UNCHANGED <<active_sessions, session, task, cycles,
                               suspicious_events, epoch>>]_vars

\* a stop for an id that a stop had removed was answered with 'Session not
\* found' while another session is registered and active
C11_Witness ==
    /\ lastResult = Result("stop", "Session not found")
    /\ \E sid \in SessionIds :
          /\ active_sessions[sid] # NoSession
          /\ session[active_sessions[sid]].is_active
    /\ \E sid \in SessionIds : active_sessions[sid] = NoSession /\ epoch[sid] > 0

----------------------------------------------------------------------------
\* CheatingClassifier: samples, training, prediction, persistence.
\* The routes call it from coroutines and none of its methods awaits, so
\* each call is one step.  A fitted component is named by the training run
\* (1, 2, ...) or the loaded blob (a negative number) its parameters are from.

MaxSamples == 11
MaxTrainRuns == 2
MaxPredictions == 2
MaxLoads == 1

min_training_samples == 10

\* the outcome of a call: what it returned or raised, on which path, and for
\* a trained-path prediction the scaler and the models it read
Last(op, outcome, path, uses) ==
    [op |-> op, outcome |-> outcome, path |-> path, uses |-> uses]

\* an add that leaves the ready flag as it is
IsTrainedAfterAdd_kept(t) == t

\* line 308: self.is_trained = False
IsTrainedAfterAdd(t) == FALSE

\* add_training_sample, lines 305-310
AddTrainingSample ==
    /\ clf.n_samples < MaxSamples
    /\ clf' = [clf EXCEPT !.n_samples = @ + 1,
                          !.is_trained = IsTrainedAfterAdd(@),
                          !.trainedSinceAdd = FALSE,
                          !.last = Last("add", "returned", "none", << >>)]
    /\ UNCHANGED <<managerVars, calc, stream, processor, detector>>

\* a train that accepts any number of samples
TooFewSamples_never(n) == FALSE

\* line 322: len(self.training_samples) < 10
TooFewSamples(n) == n < min_training_samples

\* how a training run that passed the checks ends: it completes, or one of
\* the fits raises before its model has changed, or the last
\* cross-validation raises after every model was fitted (lines 337-378
\* re-raise whatever scikit-learn raises)
TrainOutcomes == {"ok", "raise_rf", "raise_gb", "raise_lr", "raise_end"}

\* train_models, lines 322-378: the scaler is fitted first (333), then the
\* three models in turn (339, 350, 361); is_trained is set after the last
\* (371) and nowhere cleared
TrainModels(outcome) ==
    /\ IF TooFewSamples(clf.n_samples)
       THEN clf' = [clf EXCEPT !.last = Last("train", "ValueError", "none", << >>)]
       ELSE IF ~clf.sklearn
       THEN clf' = [clf EXCEPT !.last = Last("train", "ImportError", "none", << >>)]
       ELSE /\ clf.runs < MaxTrainRuns
            /\ LET run == clf.runs + 1 IN
               clf' = [clf EXCEPT
                  !.runs = run,
                  !.feature_scaler = run,
                  !.rf_model = IF outcome = "raise_rf" THEN @ ELSE run,
                  !.gb_model = IF outcome \in {"raise_rf", "raise_gb"} THEN @ ELSE run,
                  !.lr_model = IF outcome \in {"raise_rf", "raise_gb", "raise_lr"}
                               THEN @ ELSE run,
                  !.is_trained = IF outcome = "ok" THEN TRUE ELSE @,
                  !.trainedSinceAdd = IF outcome = "ok" THEN TRUE ELSE @,
                  !.last = Last("train", IF outcome = "ok" THEN "returned" ELSE "raised",
                                "none", << >>)]
    /\ UNCHANGED <<managerVars, calc, stream, processor, detector>>

\* whether the trained path returns or raises (lines 396-452)
TrainedPathOutcomes == {"ok", "exc"}

\* predict_cheating, lines 380-452: rule-based when not trained or without
\* scikit-learn (393-394) and when the trained path raises (450-452);
\* a trained-path prediction is appended to prediction_history (443)
PredictCheating(outcome) ==
    /\ IF ~clf.is_trained \/ ~clf.sklearn
       THEN clf' = [clf EXCEPT !.last = Last("predict", "returned", "rule-based", << >>)]
       ELSE IF outcome = "exc"
       THEN clf' = [clf EXCEPT !.last = Last("predict", "returned", "rule-based-after-error",
                                             << >>)]
       ELSE /\ clf.predictions < MaxPredictions
            /\ clf' = [clf EXCEPT
                  !.predictions = @ + 1,
                  !.last = Last("predict", "returned", "trained",
                                <<clf.feature_scaler, clf.rf_model, clf.gb_model,
                                  clf.lr_model>>)]
    /\ UNCHANGED <<managerVars, calc, stream, processor, detector>>

\* the files load_model may be given: none that joblib can read, one saved
\* by a classifier with the current feature-name list, one saved with
\* another list
Blobs == {"unreadable", "matching", "mismatched"}

BlobVersion(blob) == IF blob = "matching" THEN -1 ELSE -2

BlobFeatureNames(blob) == IF blob = "matching" THEN "current" ELSE "other"

\* load_model, lines 728-750: every field of the blob is taken as it is and
\* is_trained is set
LoadModel(blob) ==
    /\ clf.loads < MaxLoads
    /\ IF ~clf.sklearn
       THEN clf' = [clf EXCEPT !.loads = @ + 1,
                               !.last = Last("load", "ImportError", "none", << >>)]
       ELSE IF blob = "unreadable"
       THEN clf' = [clf EXCEPT !.loads = @ + 1,
                               !.last = Last("load", "raised", "none", << >>)]
       ELSE clf' = [clf EXCEPT
                  !.loads = @ + 1,
                  !.feature_scaler = BlobVersion(blob),
                  !.rf_model = BlobVersion(blob),
                  !.gb_model = BlobVersion(blob),
                  !.lr_model = BlobVersion(blob),
                  !.feature_names = BlobFeatureNames(blob),
                  !.is_trained = TRUE,
                  !.last = Last("load", "returned", "none", << >>)]
    /\ UNCHANGED <<managerVars, calc, stream, processor, detector>>

\* no call of the manager begins
NoBudget == [start |-> 0, stop |-> 0, chunk |-> 0, cycle |-> 0]

InitClassifier ==
    /\ InitManager
    /\ budget = NoBudget
    /\ clf \in {NewClassifier(sk) : sk \in BOOLEAN}
    /\ calc = NoCalc
    /\ InitComponents

NextClassifier ==
    \/ AddTrainingSample
    \/ \E outcome \in TrainOutcomes : TrainModels(outcome)
    \/ \E outcome \in TrainedPathOutcomes : PredictCheating(outcome)
    \/ \E blob \in Blobs : LoadModel(blob)

\* The classifier of the routes module under any sequence of its calls
ClassifierSpec == InitClassifier /\ [][NextClassifier]_vars

----------------------------------------------------------------------------
\* Properties of the classifier (checked under ClassifierSpec)

\* the scaler and the three models
Fitted(k) == <<k.feature_scaler, k.rf_model, k.gb_model, k.lr_model>>

\* C12 as stated: with fewer than 10 samples train raises, is_trained is
\* false afterwards and the scaler and the models are untouched; with 10 or
\* more samples train completes and is_trained is true afterwards
C12_TrainNeedsTenSamples ==
    [][\A outcome \in TrainOutcomes :
          TrainModels(outcome) =>
              IF clf.n_samples < 10
              THEN /\ clf'.last = Last("train", "ValueError", "none", << >>)
                   /\ ~clf'.is_trained
                   /\ Fitted(clf') = Fitted(clf)
              ELSE /\ clf'.last = Last("train", "returned", "none", << >>)
                   /\ clf'.is_trained]_vars

\* C12 amended: with fewer than 10 samples train raises ValueError and
\* leaves is_trained (false unless a model was loaded), the scaler and the
\* models as they were; with 10 or more samples it either completes, and
\* then is_trained is true and scaler and models are those of this run, or
\* it raises and leaves is_trained as it was
C12_TrainNeedsTenSamplesOrRaises ==
    [][\A outcome \in TrainOutcomes :
          TrainModels(outcome) =>
              IF clf.n_samples < 10
              THEN /\ clf'.last = Last("train", "ValueError", "none", << >>)
                   /\ clf'.is_trained = clf.is_trained
                   /\ (clf.loads = 0 => ~clf'.is_trained)
                   /\ Fitted(clf') = Fitted(clf)
              ELSE \/ /\ clf'.last = Last("train", "returned", "none", << >>)
                      /\ clf'.is_trained
                      /\ clf.sklearn
                      /\ Fitted(clf') = <<clf'.runs, clf'.runs, clf'.runs, clf'.runs>>
                      /\ clf'.runs = clf.runs + 1
                   \/ /\ clf'.last.outcome \in {"raised", "ImportError"}
                      /\ clf'.is_trained = clf.is_trained]_vars

\* train was rejected with exactly 9 samples collected
C12_Witness ==
    /\ clf.n_samples = 9
    /\ clf.last = Last("train", "ValueError", "none", << >>)
    /\ ~clf.is_trained

\* C13: as long as no model is loaded, a prediction always returns; it is
\* made on the trained path only if a training has completed since the
\* last sample was added, and it is the rule-based one in every other
\* state and when the trained path raised
C13_TrainedPathOnlyAfterTraining ==
    (clf.loads = 0 /\ clf.last.op = "predict") =>
        /\ clf.last.outcome = "returned"
        /\ clf.last.path \in {"trained", "rule-based", "rule-based-after-error"}
        /\ clf.last.path \in {"trained", "rule-based-after-error"} => clf.trainedSinceAdd
        /\ ~clf.trainedSinceAdd => clf.last.path = "rule-based"

\* a training completed, a sample was added after it, and the prediction
\* that followed was the rule-based one
C13_Witness ==
    /\ clf.loads = 0
    /\ clf.runs >= 1
    /\ clf.feature_scaler = clf.lr_model
    /\ clf.feature_scaler >= 1
    /\ clf.n_samples = 11
    /\ ~clf.is_trained
    /\ clf.last = Last("predict", "returned", "rule-based", << >>)

\* the scaler and the models of q are all from one training run or one blob
SameOrigin(q) == \A i \in DOMAIN q : \A j \in DOMAIN q : q[i] = q[j]

\* C14: while is_trained is set the scaler and the three models are from
\* one completed training run (or one loaded file), and every trained-path
\* prediction read a scaler and models of one origin
C14_ServesOneTrainingRun ==
    /\ clf.is_trained => SameOrigin(Fitted(clf))
    /\ clf.last.path = "trained" => SameOrigin(clf.last.uses)

\* C15: loading a file whose feature-name list is not the classifier's
\* fails and leaves the models, the feature names and is_trained as they
\* were, so the classifier is never trained on another feature list
C15_MismatchedSchemaIsRejected ==
    [][/\ LoadModel("mismatched") =>
             /\ clf'.last.op = "load"
             /\ clf'.last.outcome \in {"raised", "ImportError"}
             /\ Fitted(clf') = Fitted(clf)
             /\ clf'.feature_names = clf.feature_names
             /\ clf'.is_trained = clf.is_trained
       /\ clf'.is_trained => clf'.feature_names = "current"]_vars

----------------------------------------------------------------------------
\* The analysis functions.  A call is a function name with its input; the
\* step applies the function.  Real numbers are in hundredths unless a
\* definition says otherwise.

\* a call that has not been made yet
Call(fn, input) == [fn |-> fn, input |-> input, done |-> FALSE, output |-> << >>]

\* the call raised exception e
Raises(e) == [raised |-> e]

----------------------------------------------------------------------------
\* VoiceProcessor.analyze_audio_chunk (real_time_processor.py)

MaxBytes == 4

\* the bytes a chunk is made of: as the high byte of a sample, 0 is a
\* quiet one, 64 a loud positive one and 192 a loud negative one
ByteValues == {0, 64, 192}

ByteStrings == UNION {[1..n -> ByteValues] : n \in 0..MaxBytes}

\* what the Silero model does with a chunk: it was not loaded (line 140),
\* it throws (152-154), or it returns a probability
SileroBackends ==
    {[state |-> "unavailable", value |-> 0], [state |-> "throws", value |-> 0],
     [state |-> "ok", value |-> 20], [state |-> "ok", value |-> 80]}

\* what the WebRTC detector does with a chunk (lines 166-173)
WebrtcBackends ==
    {[state |-> "unavailable", value |-> FALSE], [state |-> "throws", value |-> FALSE],
     [state |-> "ok", value |-> FALSE], [state |-> "ok", value |-> TRUE]}

vad_threshold == 50

\* a 16-bit little-endian sample, signed
Int16(lo, hi) ==
    LET u == lo + 256 * hi IN IF u >= 32768 THEN u - 65536 ELSE u

\* line 186, np.frombuffer(audio_data, dtype=np.int16): the samples of a
\* byte string whose length is a multiple of 2
Samples(bytes) ==
    [i \in 1..(Len(bytes) \div 2) |-> Int16(bytes[2 * i - 1], bytes[2 * i])]

\* np.frombuffer raises ValueError when the buffer size is not a multiple
\* of the element size
FromBufferRaises(bytes) == Len(bytes) % 2 # 0

Sign(x) == IF x > 0 THEN 1 ELSE IF x < 0 THEN -1 ELSE 0

RECURSIVE SumSquares(_)
SumSquares(q) ==
    IF q = << >> THEN 0 ELSE Head(q) * Head(q) + SumSquares(Tail(q))

\* line 195: np.sum(np.diff(np.sign(audio_np)) != 0)
Crossings(q) ==
    Cardinality({i \in 1..(Len(q) - 1) : Sign(q[i + 1]) # Sign(q[i])})

\* lines 140-154
SileroProbability(backend) ==
    IF backend.state \in {"unavailable", "throws"} THEN 0 ELSE backend.value

\* lines 166-173
WebrtcDetected(backend) ==
    IF backend.state \in {"unavailable", "throws"} THEN FALSE ELSE backend.value

\* line 226, rms_energy < 0.01: the mean of the squares of the n int16
\* samples is below (0.01 * 32768)^2 = 107374.1824
LowEnergy(sumsq, n) ==
    \/ sumsq \div n < 107374
    \/ sumsq \div n = 107374 /\ (sumsq % n) * 10000 < 1824 * n

\* lines 226-235, on a record whose energy is the sum of the squares of n
\* int16 samples and whose zero-crossing rate is crossings / n; without
\* samples both are NaN and no comparison with them holds
SuspiciousIndicators(is_speech, webrtc, sumsq, crossings, n) ==
    (IF is_speech /\ n > 0 /\ LowEnergy(sumsq, n)
        THEN {"low_energy_speech"} ELSE {})
    \cup (IF n > 0 /\ crossings * 10 > 3 * n THEN {"high_distortion"} ELSE {})
    \cup (IF is_speech # webrtc THEN {"vad_inconsistency"} ELSE {})

\* analyze_audio_chunk, lines 175-219.  rms_energy is given by the mean
\* square it is the root of (sum of squares and number of samples).
AnalyzeAudioChunk(bytes, silero, webrtc) ==
    IF FromBufferRaises(bytes)
    THEN Raises("ValueError")
    ELSE LET audio_np == Samples(bytes)
             n == Len(audio_np)
             silero_prob == SileroProbability(silero)
             webrtc_detected == WebrtcDetected(webrtc)
             is_speech == silero_prob > vad_threshold
         IN [ raised             |-> "none",
              is_speech          |-> is_speech,
              silero_probability |-> silero_prob,
              webrtc_detected    |-> webrtc_detected,
              rms_energy         |-> IF n = 0 THEN "nan" ELSE "number",
              sum_squares        |-> SumSquares(audio_np),
              zero_crossing_rate |-> IF n = 0 THEN "nan" ELSE "number",
              crossings          |-> Crossings(audio_np),
              samples            |-> n,
              indicators         |-> SuspiciousIndicators(is_speech, webrtc_detected,
                                        SumSquares(audio_np), Crossings(audio_np), n) ]

AnalyzeAudioChunkCalls ==
    {Call("analyze_audio_chunk", [bytes |-> b, silero |-> s, webrtc |-> w]) :
        b \in ByteStrings, s \in SileroBackends, w \in WebrtcBackends}

ApplyAnalyzeAudioChunk ==
    /\ calc.fn = "analyze_audio_chunk"
    /\ ~calc.done
    /\ calc' = [calc EXCEPT
          !.done = TRUE,
          !.output = AnalyzeAudioChunk(calc.input.bytes, calc.input.silero,
                                       calc.input.webrtc)]
    /\ UNCHANGED <<managerVars, clf, stream, processor, detector>>

----------------------------------------------------------------------------
\* CheatingClassifier._get_rule_based_prediction (cheating_classifier.py)

\* the fields of a CheatingSample the rule-based path reads, with values
\* inside and outside their nominal ranges; levels, scores and frequencies
\* are in hundredths
CheatingSamples ==
    [ help_seeking_phrases       : {0, 1},
      answer_receiving_phrases   : {0, 2},
      external_discussion        : BOOLEAN,
      total_speakers             : {1, 2},
      stress_level               : {-50, 0, 70, 80},
      anxiety_level              : {0, 90},
      deception_indicators_count : {0, 2, 3},
      potential_recording        : BOOLEAN,
      audio_quality_score        : {50, 100, 150},
      pause_frequency            : {0, 40} ]

Max2(a, b) == IF a > b THEN a ELSE b

\* lines 587-595
RiskBreakdown(sample) ==
    [ content_risk    |-> Min(100, (sample.help_seeking_phrases
                                     + sample.answer_receiving_phrases) * 20),
      speaker_risk    |-> Min(100, Max2(0, sample.total_speakers - 1) * 50),
      emotion_risk    |-> Min(100, (sample.stress_level + sample.anxiety_level) \div 2),
      quality_risk    |-> Min(100, (100 - sample.audio_quality_score)
                                     + (IF sample.potential_recording THEN 100 ELSE 0)),
      behavioral_risk |-> Min(100, sample.pause_frequency \div 2) ]

\* lines 456-489: the additions of the rules that fire, in the code's order
RuleSum(sample) ==
    (IF sample.help_seeking_phrases > 0 THEN 40 ELSE 0)
    + (IF sample.answer_receiving_phrases > 0 THEN 50 ELSE 0)
    + (IF sample.external_discussion THEN 30 ELSE 0)
    + (IF sample.total_speakers > 1 THEN 30 ELSE 0)
    + (IF sample.stress_level > 70 THEN 20 ELSE 0)
    + (IF sample.deception_indicators_count > 2 THEN 20 ELSE 0)
    + (IF sample.potential_recording THEN 30 ELSE 0)

\* a risk score that is the bare sum
RuleBasedRisk_unclamped(sample) == RuleSum(sample)

\* line 491: risk_score = min(1.0, risk_score)
RuleBasedRisk(sample) == Min(100, RuleSum(sample))

\* lines 491-506
RuleBasedPrediction(sample) ==
    LET risk_score == RuleBasedRisk(sample)
        probability == risk_score
        confidence == Max2(probability, 100 - probability)
    IN [ raised         |-> "none",
         is_cheating    |-> probability > 50,
         confidence     |-> (confidence * 8) \div 10,
         probability    |-> probability,
         risk_score     |-> risk_score,
         risk_breakdown |-> RiskBreakdown(sample),
         model_used     |-> "Rule-based (fallback)" ]

RuleBasedCalls == {Call("_get_rule_based_prediction", x) : x \in CheatingSamples}

ApplyRuleBasedPrediction ==
    /\ calc.fn = "_get_rule_based_prediction"
    /\ ~calc.done
    /\ calc' = [calc EXCEPT !.done = TRUE, !.output = RuleBasedPrediction(calc.input)]
    /\ UNCHANGED <<managerVars, clf, stream, processor, detector>>

----------------------------------------------------------------------------
\* behavioral_analyzer.py: BehavioralAnalyzer.analyze_behavior and the four
\* sub-analyses it calls.  Scores are in hundredths, times in tenths of a
\* second, the speech rate in words per minute.

\* speech segments as the caller passes them: start_time, end_time, duration
Segment(s, e) == [start_time |-> s, end_time |-> e, duration |-> e - s]

SegmentLists ==
    { << >>,
      <<Segment(0, 0)>>,
      <<Segment(0, 10)>>,
      <<Segment(0, 10), Segment(20, 30)>>,
      <<Segment(0, 10), Segment(20, 90)>> }

\* a transcription is the sequence of the phrases spoken; the empty sequence
\* is the empty string
Transcriptions ==
    { << >>, <<"hello">>, <<"google it">>, <<"the answer is">>, <<"he said">> }

\* a non-empty buffer is described by what analyze_audio_quality computes
\* from it (lines 344-378); a buffer of length 0 has nothing to describe
AudioBuffers ==
    {[len |-> 0, quality_score |-> 0, recording |-> FALSE]}
    \cup [len : {16000}, quality_score : {20, 100}, recording : BOOLEAN]

\* a non-empty list of voice events is described by what
\* analyze_temporal_patterns counts in it (lines 402-434)
VoiceEventLists ==
    {[n |-> 0, silences |-> 0, bursts |-> 0, inconsistent |-> FALSE]}
    \cup [n : {40}, silences : {0, 3}, bursts : {0, 4}, inconsistent : BOOLEAN]

RECURSIVE TotalDuration(_)
TotalDuration(segs) ==
    IF segs = << >> THEN 0 ELSE Head(segs).duration + TotalDuration(Tail(segs))

\* lines 201-208: the pauses between consecutive segments that are positive
PauseDurations(segs) ==
    LET gaps == [i \in 1..(Len(segs) - 1) |->
                    segs[i + 1].start_time - segs[i].end_time]
    IN SelectSeq(gaps, LAMBDA g : g > 0)

RECURSIVE SumSeq(_)
SumSeq(q) == IF q = << >> THEN 0 ELSE Head(q) + SumSeq(Tail(q))

Abs(x) == IF x < 0 THEN -x ELSE x

\* lines 216-221: np.std / np.mean of the segment durations, in hundredths,
\* for the lists of one or two segments of SegmentLists (the standard
\* deviation of two numbers is half their distance), 0 when the mean is 0
DurationVariation(segs) ==
    IF TotalDuration(segs) = 0 THEN 0
    ELSE IF Len(segs) = 1 THEN 0
    ELSE (100 * Abs(segs[1].duration - segs[2].duration)) \div TotalDuration(segs)

\* line 190: "speech_consistency": 0.0 when there is no segment
EmptyConsistency == 0

\* lines 172-228
AnalyzeSpeechPatterns(segs) ==
    IF segs = << >> THEN
        [ speech_rate |-> 0, pause_frequency |-> 0,
          average_pause_duration |-> 0, speech_consistency |-> EmptyConsistency ]
    ELSE
        LET total == TotalDuration(segs)
            pauses == PauseDurations(segs)
        IN [ speech_rate |-> IF total > 0 THEN 150 ELSE 0,
             pause_frequency |->
                 IF total > 0 THEN (1000 * Len(pauses)) \div total ELSE 0,
             average_pause_duration |->
                 IF pauses # << >> THEN SumSeq(pauses) \div Len(pauses) ELSE 0,
             speech_consistency |->
                 Max2(0, Min(100, 100 - DurationVariation(segs))) ]

\* lines 230-322: the phrases of Transcriptions against the phrase list, the
\* help-seeking patterns, the answer patterns and the discussion indicators
AnalyzeContent(text) ==
    IF text = << >> THEN
        [ question_reading_detected |-> FALSE, help_seeking_phrases |-> 0,
          answer_receiving_phrases |-> 0, external_discussion |-> FALSE ]
    ELSE
        [ question_reading_detected |-> FALSE,
          help_seeking_phrases |-> IF text[1] = "google it" THEN 1 ELSE 0,
          answer_receiving_phrases |-> IF text[1] = "the answer is" THEN 1 ELSE 0,
          external_discussion |-> text[1] = "he said" ]

\* lines 324-378
AnalyzeAudioQuality(audio) ==
    IF audio.len = 0 THEN
        [ audio_quality_score |-> 100, potential_recording |-> FALSE ]
    ELSE
        [ audio_quality_score |-> audio.quality_score,
          potential_recording |-> audio.recording ]

\* lines 380-440
AnalyzeTemporalPatterns(events) ==
    IF events.n = 0 THEN
        [ unusual_silence_periods |-> 0, rapid_speech_bursts |-> 0,
          inconsistent_volume |-> FALSE ]
    ELSE
        [ unusual_silence_periods |-> events.silences,
          rapid_speech_bursts |-> events.bursts,
          inconsistent_volume |-> events.inconsistent ]

\* lines 442-512: calculate_overall_risk_score
OverallRiskScore(m) ==
    Min(100,
        (IF m.help_seeking_phrases > 0 THEN 30 ELSE 0)
      + (IF m.answer_receiving_phrases > 0 THEN 40 ELSE 0)
      + (IF m.external_discussion THEN 30 ELSE 0)
      + (IF m.question_reading_detected THEN 20 ELSE 0)
      + (IF m.potential_recording THEN 15 ELSE 0)
      + (IF m.audio_quality_score < 30 THEN 15 ELSE 0)
      + (IF m.unusual_silence_periods > 2 THEN 20 ELSE 0)
      + (IF m.rapid_speech_bursts > 3 THEN 15 ELSE 0)
      + (IF m.inconsistent_volume THEN 20 ELSE 0)
      + (IF m.speech_rate > 200 \/ m.speech_rate < 50 THEN 10 ELSE 0)
      + (IF m.speech_consistency < 30 THEN 10 ELSE 0))

\* lines 514-583
AnalyzeBehavior(audio, text, segs, events) ==
    LET speech_patterns == AnalyzeSpeechPatterns(segs)
        content_analysis == AnalyzeContent(text)
        audio_quality == AnalyzeAudioQuality(audio)
        temporal_patterns == AnalyzeTemporalPatterns(events)
        metrics ==
            [ speech_rate |-> speech_patterns.speech_rate,
              pause_frequency |-> speech_patterns.pause_frequency,
              average_pause_duration |-> speech_patterns.average_pause_duration,
              speech_consistency |-> speech_patterns.speech_consistency,
              question_reading_detected |-> content_analysis.question_reading_detected,
              help_seeking_phrases |-> content_analysis.help_seeking_phrases,
              answer_receiving_phrases |-> content_analysis.answer_receiving_phrases,
              external_discussion |-> content_analysis.external_discussion,
              audio_quality_score |-> audio_quality.audio_quality_score,
              potential_recording |-> audio_quality.potential_recording,
              unusual_silence_periods |-> temporal_patterns.unusual_silence_periods,
              rapid_speech_bursts |-> temporal_patterns.rapid_speech_bursts,
              inconsistent_volume |-> temporal_patterns.inconsistent_volume ]
        risk_score == OverallRiskScore(metrics)
    IN [ raised |-> "none",
         metrics |-> metrics,
         overall_confidence |-> 100 - risk_score,
         risk_score |-> risk_score ]

AnalyzeBehaviorCalls ==
    { Call("analyze_behavior",
           [audio_data |-> a, transcription |-> t,
            speech_segments |-> s, voice_events |-> e]) :
        a \in AudioBuffers, t \in Transcriptions,
        s \in SegmentLists, e \in VoiceEventLists }

ApplyAnalyzeBehavior ==
    /\ calc.fn = "analyze_behavior"
    /\ ~calc.done
    /\ calc' = [calc EXCEPT !.done = TRUE,
                            !.output = AnalyzeBehavior(calc.input.audio_data,
                                                       calc.input.transcription,
                                                       calc.input.speech_segments,
                                                       calc.input.voice_events)]
    /\ UNCHANGED <<managerVars, clf, stream, processor, detector>>

----------------------------------------------------------------------------
\* speaker_detector.py: SpeakerDetector.analyze_audio_async and what it
\* calls.  Ratios and scores are in hundredths, times in tenths of a second.

\* what the diarization pipeline answers when it is asked: it raises
\* (ok = FALSE), or it returns an annotation, the sequence of its tracks
Track(speaker, s, e) == [speaker |-> speaker, start |-> s, end |-> e]

PipelineAnswers ==
    { [ok |-> FALSE, tracks |-> << >>],
      [ok |-> TRUE,  tracks |-> << >>],
      [ok |-> TRUE,  tracks |-> <<Track("A", 0, 50)>>],
      [ok |-> TRUE,  tracks |-> <<Track("A", 0, 50), Track("B", 50, 100)>>],
      [ok |-> TRUE,  tracks |-> <<Track("A", 0, 80), Track("B", 20, 100)>>],
      [ok |-> TRUE,  tracks |-> <<Track("A", 0, 20), Track("B", 20, 40),
                                  Track("C", 40, 60)>>] }

\* an audio buffer is described by the energy of each of its ten windows
WindowEnergies ==
    { [i \in 1..10 |-> 10],
      [i \in 1..10 |-> IF i <= 5 THEN 10 ELSE 20],
      [i \in 1..10 |-> IF i <= 2 THEN 90 ELSE 10] }

NoDiarization == [none |-> TRUE, tracks |-> << >>]

\* lines 184-214: None when the model is not loaded or the pipeline raises
PerformSpeakerDiarization(model_loaded, pipeline) ==
    IF ~model_loaded THEN NoDiarization
    ELSE IF ~pipeline.ok THEN NoDiarization
    ELSE [none |-> FALSE, tracks |-> pipeline.tracks]

Speakers(tracks) == {tracks[i].speaker : i \in 1..Len(tracks)}

RECURSIVE SpeakerDuration(_, _)
SpeakerDuration(tracks, speaker) ==
    IF tracks = << >> THEN 0
    ELSE (IF Head(tracks).speaker = speaker
          THEN Head(tracks).end - Head(tracks).start ELSE 0)
         + SpeakerDuration(Tail(tracks), speaker)

\* lines 297-307
CountSpeakerSwitches(tracks) ==
    Cardinality({i \in 2..Len(tracks) : tracks[i].speaker # tracks[i - 1].speaker})

RECURSIVE SumOver(_, _)
SumOver(f, S) ==
    IF S = {} THEN 0
    ELSE LET x == CHOOSE y \in S : TRUE IN f[x] + SumOver(f, S \ {x})

\* lines 309-330
DetectOverlappingSpeech(tracks) ==
    LET pairs == {p \in (1..Len(tracks)) \X (1..Len(tracks)) :
                     /\ p[1] < p[2]
                     /\ tracks[p[1]].speaker # tracks[p[2]].speaker}
        overlap == [p \in pairs |->
            LET overlap_start == Max2(tracks[p[1]].start, tracks[p[2]].start)
                overlap_end == Min(tracks[p[1]].end, tracks[p[2]].end)
            IN IF overlap_start < overlap_end
               THEN overlap_end - overlap_start ELSE 0]
    IN SumOver(overlap, pairs)

\* lines 332-359
IdentifySuspiciousPatterns(total_speakers, speaker_switches, primary_ratio, overlapping_duration) ==
      (IF total_speakers > 1 THEN {"Multiple speakers detected"} ELSE {})
    \cup (IF speaker_switches > 10 THEN {"Frequent speaker switches"} ELSE {})
    \cup (IF total_speakers > 1 /\ primary_ratio < 60
          THEN {"No dominant speaker"} ELSE {})
    \cup (IF overlapping_duration > 50
          THEN {"Overlapping speech detected"} ELSE {})
    \cup (IF total_speakers = 2 /\ speaker_switches > 5
          THEN {"Rapid alternating speakers"} ELSE {})

\* lines 361-381
DiarizationConfidence(speakers, switches, primary_ratio) ==
    Max2(0, Min(100,
        100 - (IF speakers > 2 THEN 10 * (speakers - 2) ELSE 0)
            - (IF switches > 20 THEN 20 ELSE 0)
            - (IF speakers > 1 /\ primary_ratio < 40 THEN 30 ELSE 0)))

\* lines 228-238: the analysis returned for a missing or empty diarization is
\* a SpeakerAnalysis, which has no field "fallback"
EmptyDiarizationMarker == FALSE

\* lines 216-295; the field "fallback" stands for result.get("fallback", False)
AnalyzeSpeakerPatterns(diarization) ==
    IF diarization.none \/ diarization.tracks = << >> THEN
        [ error |-> "none", total_speakers |-> 0, primary_speaker_ratio |-> 100,
          speaker_switches |-> 0, overlapping_speech_duration |-> 0,
          suspicious_patterns |-> {}, confidence_score |-> 0,
          fallback |-> EmptyDiarizationMarker ]
    ELSE
        LET tracks == diarization.tracks
            speakers == Speakers(tracks)
            total_speakers == Cardinality(speakers)
            durations == [sp \in speakers |-> SpeakerDuration(tracks, sp)]
            total_duration == SumOver(durations, speakers)
            primary_duration == Max({durations[sp] : sp \in speakers})
            primary_speaker_ratio ==
                IF total_duration > 0
                THEN (100 * primary_duration) \div total_duration ELSE 0
            speaker_switches == CountSpeakerSwitches(tracks)
            overlapping_duration == DetectOverlappingSpeech(tracks)
        IN [ error |-> "none", total_speakers |-> total_speakers,
             primary_speaker_ratio |-> primary_speaker_ratio,
             speaker_switches |-> speaker_switches,
             overlapping_speech_duration |-> overlapping_duration,
             suspicious_patterns |->
                 IdentifySuspiciousPatterns(total_speakers, speaker_switches,
                     primary_speaker_ratio, overlapping_duration),
             confidence_score |->
                 DiarizationConfidence(total_speakers, speaker_switches,
                                       primary_speaker_ratio),
             fallback |-> FALSE ]

\* lines 383-434.  The cache holds what an earlier call of the same detector
\* returned for a buffer of this session and length; the except branch needs
\* an exception from analyze_speaker_patterns, which these inputs do not raise.
AnalyzeAudioAsync(model_loaded, pipeline, cache_hit, cached_pipeline) ==
    IF cache_hit
    THEN AnalyzeSpeakerPatterns(PerformSpeakerDiarization(model_loaded, cached_pipeline))
    ELSE AnalyzeSpeakerPatterns(PerformSpeakerDiarization(model_loaded, pipeline))

\* lines 452-455: whether np.std(energies) / np.mean(energies) > 0.5, that is
\* whether the variance exceeds a quarter of the squared mean
EnergyVariationOverHalf(energies) ==
    LET n == Len(energies)
        sum == SumSeq(energies)
        sumsq == SumSeq([i \in 1..n |-> energies[i] * energies[i]])
    IN 4 * (n * sumsq - sum * sum) > sum * sum

\* lines 436-471: get_fallback_analysis
GetFallbackAnalysis(energies) ==
    LET estimated_speakers == IF EnergyVariationOverHalf(energies) THEN 2 ELSE 1
    IN [ total_speakers |-> estimated_speakers,
         primary_speaker_ratio |-> IF estimated_speakers = 1 THEN 80 ELSE 60,
         confidence_score |-> 40,
         fallback |-> TRUE ]

AnalyzeAudioAsyncCalls ==
    { Call("analyze_audio_async",
           [model_loaded |-> m, energies |-> w, pipeline |-> p,
            cache_hit |-> h, cached_pipeline |-> c]) :
        m \in BOOLEAN, w \in WindowEnergies, p \in PipelineAnswers,
        h \in BOOLEAN, c \in PipelineAnswers }

ApplyAnalyzeAudioAsync ==
    /\ calc.fn = "analyze_audio_async"
    /\ ~calc.done
    /\ calc' = [calc EXCEPT !.done = TRUE,
                            !.output = AnalyzeAudioAsync(calc.input.model_loaded,
                                                         calc.input.pipeline,
                                                         calc.input.cache_hit,
                                                         calc.input.cached_pipeline)]
    /\ UNCHANGED <<managerVars, clf, stream, processor, detector>>

----------------------------------------------------------------------------
\* behavioral_analyzer.py: analyze_temporal_patterns on the sequence of the
\* per-chunk is_speech flags of its events (lines 380-440).  The volume test
\* (426-432) reads the rms energies only and is left to VoiceEventLists.

\* the flags as runs of equal flags: the first run's flag and the lengths
RunLengths == {1, 8, 9, 29, 30, 31}

MaxRuns == 3

RunLists ==
    UNION {[first : BOOLEAN, lengths : [1..k -> RunLengths]] : k \in 0..MaxRuns}

Repeat(x, n) == [i \in 1..n |-> x]

\* the sequence of flags of a run list: the runs alternate
RECURSIVE Flags(_, _, _)
Flags(first, lengths, k) ==
    IF k > Len(lengths) THEN << >>
    ELSE Repeat(IF k % 2 = 1 THEN first ELSE ~first, lengths[k])
            \o Flags(first, lengths, k + 1)

\* line 414: a silence is unusual when it lasted more than 30 chunks
UnusualSilence(duration) == duration > 30

\* lines 409-416: current_silence_duration when the loop reaches position
\* i: the number of non-speech flags since the last speech flag before i
SilenceDurationAt(flags, i) ==
    (i - 1) - Max({0} \cup {j \in 1..(i - 1) : flags[j]})

\* lines 406-416: the loop over the flags; the silence duration is looked
\* at, and reset, at every speech flag and nowhere else
UnusualSilences(flags) ==
    Cardinality({i \in 1..Len(flags) :
                    flags[i] /\ UnusualSilence(SilenceDurationAt(flags, i))})

\* lines 423-424: speech_count = sum(window), window = flags[i : i + 10], i from 0
SpeechCount(flags, i) ==
    Cardinality({j \in (i + 1)..(i + 10) : j <= Len(flags) /\ flags[j]})

\* lines 418-426: for i in range(len(speech_indicators) - window_size)
RapidBursts(flags) ==
    Cardinality({i \in 0..(Len(flags) - 10 - 1) : SpeechCount(flags, i) > 8})

\* lines 380-440, the two counts
TemporalPatternCounts(flags) ==
    IF flags = << >>
    THEN [ raised |-> "none", unusual_silence_periods |-> 0, rapid_speech_bursts |-> 0 ]
    ELSE [ raised |-> "none",
           unusual_silence_periods |-> UnusualSilences(flags),
           rapid_speech_bursts |-> RapidBursts(flags) ]

TemporalPatternCalls ==
    { Call("analyze_temporal_patterns",
           [speech_indicators |-> Flags(r.first, r.lengths, 1)]) : r \in RunLists }

ApplyTemporalPatterns ==
    /\ calc.fn = "analyze_temporal_patterns"
    /\ ~calc.done
    /\ calc' = [calc EXCEPT !.done = TRUE,
                            !.output = TemporalPatternCounts(calc.input.speech_indicators)]
    /\ UNCHANGED <<managerVars, clf, stream, processor, detector>>

----------------------------------------------------------------------------
\* The calls of the analysis functions, each with one of its inputs

FunctionCalls ==
    AnalyzeAudioChunkCalls \cup RuleBasedCalls \cup AnalyzeBehaviorCalls
        \cup AnalyzeAudioAsyncCalls \cup TemporalPatternCalls

InitFunctions ==
    /\ InitManager
    /\ budget = NoBudget
    /\ clf = NewClassifier(TRUE)
    /\ calc \in FunctionCalls
    /\ InitComponents

NextFunctions ==
    \/ ApplyAnalyzeAudioChunk
    \/ ApplyRuleBasedPrediction
    \/ ApplyAnalyzeBehavior
    \/ ApplyAnalyzeAudioAsync
    \/ ApplyTemporalPatterns

FunctionsSpec == InitFunctions /\ [][NextFunctions]_vars

----------------------------------------------------------------------------
\* Properties of the analysis functions (checked under FunctionsSpec)

\* C16: analyze_audio_chunk returns a record for every byte string, and
\* when the Silero model is unavailable or throws the record has
\* probability 0 and is_speech false with its energy and zero-crossing
\* fields produced
C16_AnalyzeAudioChunkNeverRaises ==
    (calc.fn = "analyze_audio_chunk" /\ calc.done) =>
        /\ calc.output.raised = "none"
        /\ calc.input.silero.state \in {"unavailable", "throws"} =>
              /\ calc.output.silero_probability = 0
              /\ ~calc.output.is_speech
              /\ calc.output.rms_energy \in {"number", "nan"}
              /\ calc.output.zero_crossing_rate \in {"number", "nan"}

\* the prediction of the rule-based path for a sample has been made
RuleBasedDone == calc.fn = "_get_rule_based_prediction" /\ calc.done

Score(x) == x >= 0 /\ x <= 100

\* C19: the risk score, the probability, the confidence and the five
\* category scores of a prediction are in [0, 1], whatever the fields of
\* the sample
C19_ScoresWithinUnitInterval ==
    RuleBasedDone =>
        /\ Score(calc.output.risk_score)
        /\ Score(calc.output.probability)
        /\ Score(calc.output.confidence)
        /\ Score(calc.output.risk_breakdown.content_risk)
        /\ Score(calc.output.risk_breakdown.speaker_risk)
        /\ Score(calc.output.risk_breakdown.emotion_risk)
        /\ Score(calc.output.risk_breakdown.quality_risk)
        /\ Score(calc.output.risk_breakdown.behavioral_risk)

\* the rules of the rule-based path and their weights
RuleWeight ==
    [ answer_receiving |-> 50, help_seeking |-> 40, external_discussion |-> 30,
      multiple_speakers |-> 30, potential_recording |-> 30, stress |-> 20,
      deception |-> 20 ]

\* the rules that fire for a sample
Fired(x) ==
    {r \in DOMAIN RuleWeight :
        \/ r = "answer_receiving" /\ x.answer_receiving_phrases > 0
        \/ r = "help_seeking" /\ x.help_seeking_phrases > 0
        \/ r = "external_discussion" /\ x.external_discussion
        \/ r = "multiple_speakers" /\ x.total_speakers > 1
        \/ r = "potential_recording" /\ x.potential_recording
        \/ r = "stress" /\ x.stress_level > 70
        \/ r = "deception" /\ x.deception_indicators_count > 2}

RECURSIVE WeightOf(_)
WeightOf(rules) ==
    IF rules = {} THEN 0
    ELSE LET r == CHOOSE q \in rules : TRUE IN RuleWeight[r] + WeightOf(rules \ {r})

\* C20: on the rule-based path the risk score is the sum of the weights of
\* the rules that fire, capped at 1, the probability equals it and
\* is_cheating holds exactly above 0.5; a sample with nothing suspicious
\* scores 0, and one with answer-receiving, help-seeking and a second
\* speaker scores above 0.5
C20_RuleBasedRiskIsCappedWeightSum ==
    RuleBasedDone =>
        LET x == calc.input
            y == calc.output
        IN /\ y.risk_score = (IF WeightOf(Fired(x)) > 100 THEN 100 ELSE WeightOf(Fired(x)))
           /\ y.probability = y.risk_score
           /\ y.is_cheating <=> y.probability > 50
           /\ Fired(x) = {} => (y.risk_score = 0 /\ ~y.is_cheating)
           /\ (x.answer_receiving_phrases >= 1 /\ x.help_seeking_phrases >= 1
                 /\ x.total_speakers > 1) => y.risk_score > 50

\* a sample with answer-receiving and help-seeking phrases and two speakers
\* was scored: the weights add up to 1.2 and the risk score is 1
C20_Witness ==
    /\ RuleBasedDone
    /\ calc.input.answer_receiving_phrases >= 1
    /\ calc.input.help_seeking_phrases >= 1
    /\ calc.input.total_speakers > 1
    /\ WeightOf(Fired(calc.input)) = 120
    /\ calc.output.risk_score = 100
    /\ calc.output.is_cheating

\* C17: for an audio buffer of length 0, with an empty transcription, no
\* speech segments and no voice events, the behavioral analyzer returns
\* without raising a neutral result: risk score 0, overall_confidence 1 and
\* speech rate 0.
C17_EmptyAudioGivesNeutralResult ==
    ( /\ calc.fn = "analyze_behavior"
      /\ calc.done
      /\ calc.input.audio_data.len = 0
      /\ calc.input.transcription = << >>
      /\ calc.input.speech_segments = << >>
      /\ calc.input.voice_events.n = 0 )
    => /\ calc.output.raised = "none"
       /\ calc.output.risk_score = 0
       /\ calc.output.overall_confidence = 100
       /\ calc.output.metrics.speech_rate = 0

\* C18: whenever the diarization model is not loaded, analyze_audio_async
\* returns the energy-variance fallback: total_speakers is 2 when the
\* coefficient of variation of the window energies exceeds 0.5 and 1
\* otherwise, confidence_score is 0.4 and the fallback marker is true.
C18_UnloadedModelGivesFallback ==
    ( /\ calc.fn = "analyze_audio_async"
      /\ calc.done
      /\ ~calc.input.model_loaded )
    => /\ calc.output.fallback
       /\ calc.output.confidence_score = 40
       /\ calc.output.total_speakers
              = GetFallbackAnalysis(calc.input.energies).total_speakers

----------------------------------------------------------------------------
\* VoiceSession.process_audio on the buffer itself (websocket_handler.py
\* 265-315).  The buffer is kept by content: a sequence of runs, each the
\* samples from..to of the chunk-th accepted chunk, in buffer order.  The
\* feedback send that follows (304) changes nothing of the session.

MaxFeeds == 4

\* the audio_bytes of a call after the decoding of lines 280-284: the
\* payload of a base64 text, or the bytes themselves when they are no base64
\* text; an odd number of bytes is no whole number of int16 samples
ChunkBytes == {0, 3, 400000, 640000}

AudioData == [nbytes : ChunkBytes]

\* line 287: np.frombuffer(audio_bytes, dtype=np.int16) raises ValueError
\* when the size is no multiple of the element size
DecodeRaises(data) == data.nbytes % 2 # 0

SamplesOf(data) == data.nbytes \div 2

Run(chunk, from, to) == [chunk |-> chunk, from |-> from, to |-> to]

RunLen(r) == r.to - r.from + 1

RECURSIVE BufferLen(_)
BufferLen(runs) ==
    IF runs = << >> THEN 0 ELSE RunLen(Head(runs)) + BufferLen(Tail(runs))

Front(q) == SubSeq(q, 1, Len(q) - 1)

\* the last m samples of a buffer: buffer[-m:] for 0 < m
RECURSIVE LastSamples(_, _)
LastSamples(runs, m) ==
    IF runs = << >> \/ m <= 0 THEN << >>
    ELSE LET r == runs[Len(runs)] IN
         IF RunLen(r) >= m
         THEN <<Run(r.chunk, r.to - m + 1, r.to)>>
         ELSE Append(LastSamples(Front(runs), m - RunLen(r)), r)

\* the first m samples of a buffer: buffer[:m]
RECURSIVE FirstSamples(_, _)
FirstSamples(runs, m) ==
    IF runs = << >> \/ m <= 0 THEN << >>
    ELSE LET r == Head(runs) IN
         IF RunLen(r) >= m
         THEN <<Run(r.chunk, r.from, r.from + m - 1)>>
         ELSE <<r>> \o FirstSamples(Tail(runs), m - RunLen(r))

\* line 291: self.audio_buffer.extend(audio_np), the k-th accepted chunk
Extended(runs, k, n) == IF n = 0 THEN runs ELSE Append(runs, Run(k, 1, n))

\* a buffer cut to its oldest 30 seconds
Trimmed_oldest(runs) == FirstSamples(runs, sample_rate * max_buffer_seconds)

\* lines 295-297: a buffer longer than 30 seconds is cut to its last 30
Trimmed(runs) ==
    IF BufferLen(runs) > sample_rate * max_buffer_seconds
    THEN LastSamples(runs, sample_rate * max_buffer_seconds)
    ELSE runs

\* lines 275-315 for the session of stream
StreamProcessAudio(data) ==
    /\ stream.calls < MaxFeeds
    /\ IF ~stream.is_active
       THEN stream' = [stream EXCEPT !.calls = @ + 1, !.last = "Session not active"]
       ELSE IF DecodeRaises(data)
       THEN stream' = [stream EXCEPT !.calls = @ + 1, !.last = "error"]
       ELSE stream' = [stream EXCEPT
                !.calls = @ + 1,
                !.audio_buffer =
                    Trimmed(Extended(@, stream.audio_chunks_processed + 1,
                                     SamplesOf(data))),
                !.audio_chunks_processed = @ + 1,
                !.voice_events = @ + 1,
                !.received = Append(@, SamplesOf(data)),
                !.last = "processed"]
    /\ UNCHANGED <<managerVars, clf, calc, processor, detector>>

\* line 240: stop() deactivates the session
StreamStop ==
    /\ stream.is_active
    /\ stream' = [stream EXCEPT !.is_active = FALSE]
    /\ UNCHANGED <<managerVars, clf, calc, processor, detector>>

InitStream ==
    /\ InitManager
    /\ budget = NoBudget
    /\ clf = NewClassifier(TRUE)
    /\ calc = NoCalc
    /\ InitComponents

NextStream ==
    \/ \E data \in AudioData : StreamProcessAudio(data)
    \/ StreamStop

\* One session under any sequence of chunks and a stop
StreamSpec == InitStream /\ [][NextStream]_vars

\* every sample of every chunk the session accepted, in arrival order
AllReceived ==
    LET all == [k \in 1..Len(stream.received) |-> Run(k, 1, stream.received[k])]
    IN SelectSeq(all, LAMBDA r : r.to >= 1)

\* C21: the rolling buffer holds at most 30 seconds of samples, it is
\* exactly the most recent samples of the accepted chunks in arrival order,
\* and audio_chunks_processed is the number of chunks accepted
C21_BufferIsMostRecentSamples ==
    /\ BufferLen(stream.audio_buffer) <= sample_rate * max_buffer_seconds
    /\ stream.audio_buffer = LastSamples(AllReceived, sample_rate * max_buffer_seconds)
    /\ stream.audio_chunks_processed = Len(stream.received)

\* the buffer is full and begins in the middle of a chunk that is not the
\* first one: whole chunks and a part of one have been evicted, after a call
\* that was rejected for its odd size
C21_Witness ==
    /\ BufferLen(stream.audio_buffer) = sample_rate * max_buffer_seconds
    /\ stream.audio_buffer[1].chunk > 1
    /\ stream.audio_buffer[1].from > 1
    /\ stream.calls > stream.audio_chunks_processed

----------------------------------------------------------------------------
\* VoiceProcessor fed a sequence of chunks (real_time_processor.py), either
\* by calls of analyze_audio_chunk or as the stream of process_audio_stream.
\* audio_buffer is the number of chunks in the list.

MaxFed == 1500

\* line 279: len(self.audio_buffer) > 1000
max_stream_buffer == 1000

\* the ways a run feeds the processor
FeedPaths == {"analyze_audio_chunk", "process_audio_stream"}

\* line 186: np.frombuffer raises for a chunk of an odd number of bytes
ChunkKinds == {"even", "odd"}

\* lines 175-219: analyze_audio_chunk reads self.audio_buffer nowhere and
\* writes it nowhere
BufferAfterAnalysis(n) == n

\* lines 175-219, called directly
ProcessorAnalyzeChunk(kind) ==
    /\ processor.via = "analyze_audio_chunk"
    /\ processor.fed < MaxFed
    /\ processor' = [processor EXCEPT
           !.fed = @ + 1,
           !.audio_buffer = IF kind = "odd" THEN @ ELSE BufferAfterAnalysis(@),
           !.last = IF kind = "odd" THEN "ValueError" ELSE "analysis"]
    /\ UNCHANGED <<managerVars, clf, calc, stream, detector>>

\* lines 276-280: append, and pop the oldest chunk of a list longer than 1000
BufferAfterAppend(n) == IF n + 1 > max_stream_buffer THEN n ELSE n + 1

\* lines 261-297: the generator takes the next chunk of its stream; the
\* first one makes the processor active (262); an analysis that raises ends
\* the stream (291-296)
ProcessorStreamChunk(kind) ==
    /\ processor.via = "process_audio_stream"
    /\ processor.fed < MaxFed
    /\ processor.fed = 0 \/ processor.is_active
    /\ processor' = [processor EXCEPT
           !.fed = @ + 1,
           !.is_active = kind # "odd",
           !.audio_buffer =
               IF kind = "odd" THEN @ ELSE BufferAfterAppend(BufferAfterAnalysis(@)),
           !.last = IF kind = "odd" THEN "stream ended" ELSE "analysis"]
    /\ UNCHANGED <<managerVars, clf, calc, stream, detector>>

InitProcessor ==
    /\ InitManager
    /\ budget = NoBudget
    /\ clf = NewClassifier(TRUE)
    /\ calc = NoCalc
    /\ stream = NewStream
    /\ detector = NewDetector
    /\ processor \in {[NewProcessor EXCEPT !.via = v] : v \in FeedPaths}

NextProcessor ==
    \/ \E kind \in ChunkKinds : ProcessorAnalyzeChunk(kind)
    \/ \E kind \in ChunkKinds : ProcessorStreamChunk(kind)

\* One VoiceProcessor under any sequence of chunks
ProcessorSpec == InitProcessor /\ [][NextProcessor]_vars

\* C22: after N chunks fed through analyze_audio_chunk the processor's
\* audio buffer holds min(N, 1000) chunks
C22_RingBufferHoldsMinOfFedAndMax ==
    processor.via = "analyze_audio_chunk"
        => processor.audio_buffer = Min(processor.fed, max_stream_buffer)

----------------------------------------------------------------------------
\* The stopped state (checked under AudioSpec)

\* C23: a session that is not active never becomes active again and nothing
\* of it changes any more, and a chunk for it, also one that arrives while
\* its stop is still awaiting, is answered with 'Session not active'
C23_StoppedIsTerminal ==
    [][/\ \A o \in DOMAIN session :
             ~session[o].is_active => session'[o] = session[o]
       /\ \A c \in Callers, sid \in SessionIds :
             ((\E n \in ChunkSamples, susp \in BOOLEAN : ChunkBegin(c, sid, n, susp))
                 /\ active_sessions[sid] # NoSession
                 /\ ~session[active_sessions[sid]].is_active) =>
                /\ lastResult' = Result("chunk", "Session not active")
                /\ caller'[c].pc = "idle"
                /\ UNCHANGED <<session, suspicious_events>>]_vars

\* a chunk was refused as 'Session not active' while the stop of its session
\* is still awaiting its send, after the session had accepted a chunk
C23_Witness ==
    /\ lastResult = Result("chunk", "Session not active")
    /\ \E c \in Callers :
          /\ caller[c].pc = "stop_send"
          /\ ~session[caller[c].obj].is_active
          /\ session[caller[c].obj].audio_chunks_processed = 1
          /\ active_sessions[caller[c].sid] = caller[c].obj

----------------------------------------------------------------------------
\* The SpeakerDetector of a manager across the cycles of its sessions
\* (speaker_detector.py 383-434, called from websocket_handler.py 411-415
\* with the last ten seconds of the session's buffer).  The cache is the set
\* of its entries; the key of an entry is its session_id and len.  A call
\* names its session by the id alone, so the sessions of one id, before and
\* after a stop and a new start, are one session to the detector.

MaxAnalyses == 3

\* the windows passed in: their content and their length in samples (a
\* session with ten seconds of audio or more always passes 160000 samples)
WindowContents == {"one voice", "two voices"}
WindowLengths == {16000, 160000}

\* what a loaded pipeline answers for a window: it depends on the content
PipelineOn(content) ==
    IF content = "one voice"
    THEN [ok |-> TRUE, tracks |-> <<Track("A", 0, 50)>>]
    ELSE [ok |-> TRUE, tracks |-> <<Track("A", 0, 50), Track("B", 50, 100)>>]

\* lines 402-414: the analysis computed from the window passed in
ComputedAnalysis(model_loaded, sid, content) ==
    [ analysis |-> AnalyzeSpeakerPatterns(
                       PerformSpeakerDiarization(model_loaded, PipelineOn(content))),
      session_id |-> sid ]

\* lines 398-400: cache_key = f"{session_id}_{len(audio_data)}"
CacheEntries(sid, len) ==
    {e \in detector.analysis_cache : e.session_id = sid /\ e.len = len}

\* lines 383-434 for one call; the two executor awaits lie between the
\* lookup and the store, and the cycles of one session never overlap
DetectorAnalyze(sid, content, len) ==
    /\ detector.calls < MaxAnalyses
    /\ IF CacheEntries(sid, len) # {}
       THEN LET e == CHOOSE x \in CacheEntries(sid, len) : TRUE IN
            detector' = [detector EXCEPT
                !.calls = @ + 1,
                !.last = [hit |-> TRUE, session_id |-> sid,
                          content |-> content, len |-> len, result |-> e.result]]
       ELSE LET result == ComputedAnalysis(detector.model_loaded, sid, content) IN
            detector' = [detector EXCEPT
                !.calls = @ + 1,
                !.analysis_cache = @ \cup {[session_id |-> sid, len |-> len,
                                            result |-> result]},
                !.last = [hit |-> FALSE, session_id |-> sid,
                          content |-> content, len |-> len, result |-> result]]
    /\ UNCHANGED <<managerVars, clf, calc, stream, processor>>

InitDetector ==
    /\ InitManager
    /\ budget = NoBudget
    /\ clf = NewClassifier(TRUE)
    /\ calc = NoCalc
    /\ stream = NewStream
    /\ processor = NewProcessor
    /\ detector \in {[NewDetector EXCEPT !.model_loaded = m] : m \in BOOLEAN}

NextDetector ==
    \E sid \in SessionIds, content \in WindowContents, len \in WindowLengths :
        DetectorAnalyze(sid, content, len)

\* One SpeakerDetector under any sequence of analyses
DetectorSpec == InitDetector /\ [][NextDetector]_vars

\* C24: the analysis a call returns, served from the cache or not, is the
\* analysis of the buffer that was passed in to that call
C24_CachedAnalysisIsOfOwnBuffer ==
    detector.calls > 0 =>
        detector.last.result =
            ComputedAnalysis(detector.model_loaded, detector.last.session_id,
                             detector.last.content)

----------------------------------------------------------------------------
\* The counts of analyze_temporal_patterns (checked under FunctionsSpec)

\* the maximal runs of non-speech flags, as pairs of their first and last
\* position
SilentRuns(flags) ==
    {p \in (1..Len(flags)) \X (1..Len(flags)) :
        /\ p[1] <= p[2]
        /\ \A j \in p[1]..p[2] : ~flags[j]
        /\ p[1] = 1 \/ flags[p[1] - 1]
        /\ p[2] = Len(flags) \/ flags[p[2] + 1]}

\* C25: unusual_silence_periods is the number of maximal runs of at least 30
\* non-speech chunks, wherever they lie, and rapid_speech_bursts the number
\* of windows of 10 consecutive chunks, at every position, with at least 8
\* speech chunks; the empty sequence gives 0 for both
C25_TemporalCountsAreExact ==
    (calc.fn = "analyze_temporal_patterns" /\ calc.done) =>
        LET flags == calc.input.speech_indicators IN
        /\ calc.output.raised = "none"
        /\ calc.output.unusual_silence_periods
              = Cardinality({p \in SilentRuns(flags) : p[2] - p[1] + 1 >= 30})
        /\ calc.output.rapid_speech_bursts
              = Cardinality({i \in 0..(Len(flags) - 10) : SpeechCount(flags, i) >= 8})

----------------------------------------------------------------------------
\* The histories of a session across its cycles (checked under Spec)

\* C26: whatever the cycles of a session did, a raising analyzer or
\* classification included, its four histories have the same length
C26_HistoriesHaveEqualLength ==
    \A o \in DOMAIN session :
        /\ Len(session[o].behavioral_history) = Len(session[o].speaker_analyses)
        /\ Len(session[o].speaker_analyses) = Len(session[o].emotion_analyses)
        /\ Len(session[o].emotion_analyses) = Len(session[o].risk_history)

----------------------------------------------------------------------------
\* What a start leaves behind (checked under RegistrySpec)

\* C27: a start that created a session returns True exactly when it leaves
\* that session registered under the id and active; when it returns False,
\* the session it created is not registered and its periodic task has ended
C27_FailedStartLeavesNothing ==
    [][\A c \in Callers :
          StartSent(c) =>
              LET sid == caller[c].sid
                  o == caller[c].obj
              IN IF lastResult' = Result("start", "True")
                 THEN /\ active_sessions'[sid] = o
                      /\ session'[o].is_active
                 ELSE /\ active_sessions'[sid] # o
                      /\ task'[o].pc = "done"]_vars

----------------------------------------------------------------------------
\* Overlapping stops of one id (checked under RegistrySpec)

\* C28: when a stop completes, it raises no KeyError, the only registry
\* entry it can clear is the one of the session object it stopped, and it
\* leaves no active session of that id outside the registry
C28_StopRemovesOnlyItsOwnSession ==
    [][\A c \in Callers :
          StopSent(c) =>
              LET sid == caller[c].sid
              IN /\ lastResult' # Result("stop", "KeyError")
                 /\ active_sessions'[sid] # active_sessions[sid]
                        => active_sessions[sid] = caller[c].obj
                 /\ \A o \in DOMAIN session :
                        (session[o].session_id = sid /\ session[o].is_active)
                            => active_sessions'[sid] = o]_vars

----------------------------------------------------------------------------
\* The alert and the client's connection (checked under Spec)

\* C29: when the send of a cycle's analysis update is over, raised or not,
\* and the cycle's probability exceeds the alert threshold, the cycle has
\* been handed to the alerting collaborator
C29_AlertDoesNotNeedTheUpdate ==
    [][\A o \in DOMAIN session : \A cy \in cycles[o] : \A ok \in BOOLEAN :
          (UpdateSent(o, cy, ok) /\ cy.prob > alert_threshold)
              => \E i \in DOMAIN hist'[o].alertCalls :
                     hist'[o].alertCalls[i] = cy.n]_vars

----------------------------------------------------------------------------
\* Whose event a warning reports (checked under AudioSpec)

\* C30: every voice_warning sent to a session reports a suspicious event
\* that was raised by the very chunk of that session being processed
C30_WarningIsForOwnCurrentChunk ==
    \A w \in warnLog : w.of = [origin |-> w.to, chunk |-> w.chunk]

====
